---- MODULE Spec2Model ----
(***************************************************************************)
(* Model of the permit-ingestion pipeline of the HVAC lead generator:      *)
(*   - the background job processor (workers/job_processor.py),            *)
(*   - the job-creating endpoints and the pull scheduler,                  *)
(*   - the property aggregator (services/property_aggregator.py).          *)
(*   - the singleton that starts and stops the polling loop,               *)
(*   - the Accela client and its rate limiter (services/accela_client.py,  *)
(*     services/rate_limiter.py).                                          *)
(* The relational store is modelled table by table; a row that does not    *)
(* exist has status "none".  Every write of the code is an UPDATE ... WHERE *)
(* id = ..., which changes nothing when the row is gone.                   *)
(***************************************************************************)
EXTENDS Integers, Sequences, FiniteSets, TLC

----------------------------------------------------------------------------
(* Bounds of the model *)

MaxCounties == 1
MaxJobs == 2
YearsParam == 2
MaxPerYear == 1
MaxTime == 15
MaxAggSteps == 3
MaxCrashes == 1
MaxLoops == 3
MaxRequests == 2
MaxWall == 6
\* the ages scores and tiers are compared over
MaxAge == 40
MaxBackoffCount == 8
\* the last day the scheduler is followed to
MaxDay == 22

(* Program constants *)

DefaultMaxRetries == 3
\* settings.accela_max_retries
accela_max_retries == 3
\* settings.accela_rate_limit_threshold (0.10), in percent
accela_rate_limit_threshold == 10
StaleMinutes == 10
ProgressEvery == 50
TickMinutes == 5
\* date_from = date_to - timedelta(days=8)
SchedulerLookbackDays == 8
\* self._reschedule_county(db, county_id, schedule, days=7)
RescheduleDays == 7
\* params.get('days_back', 2)
DefaultDaysBack == 2

CountyIds == 1..MaxCounties
JobIds == 1..MaxJobs
\* range(start_year, end_year + 1) with start_year = current_year - years:
\* years + 1 calendar years, numbered here from 1 (the oldest).
Years == 1..(YearsParam + 1)
Addrs == 1..MaxPerYear

Terminal == {"completed", "failed", "cancelled"}
Active == {"pending", "running"}

Max2(a, b) == IF a >= b THEN a ELSE b
Min2(a, b) == IF a <= b THEN a ELSE b

----------------------------------------------------------------------------
(* Dates: <<year, month, day>> *)

DateLT(a, b) ==
    \/ a[1] < b[1]
    \/ a[1] = b[1] /\ a[2] < b[2]
    \/ a[1] = b[1] /\ a[2] = b[2] /\ a[3] < b[3]

NoDate == <<0, 0, 0>>

----------------------------------------------------------------------------
(* PropertyAggregator: the pure scoring functions *)

calculate_hvac_age(today, hvac_date) ==
    IF hvac_date = NoDate THEN 0
    ELSE LET age_years == today[1] - hvac_date[1]
             adj == IF \/ today[2] < hvac_date[2]
                       \/ today[2] = hvac_date[2] /\ today[3] < hvac_date[3]
                    THEN age_years - 1 ELSE age_years
         IN  Max2(0, adj)

calculate_lead_score(age) ==
    IF age >= 20 THEN 100
    ELSE IF age >= 15 THEN 80 + (age - 15) * 3
    ELSE IF age >= 10 THEN 60 + (age - 10) * 3
    ELSE IF age >= 5 THEN 40 + (age - 5) * 3
    ELSE age * 7

\* variant: HOT only after the fifteenth year
determine_lead_tier_after_15(age) ==
    IF age > 15 THEN "HOT"
    ELSE IF age >= 10 THEN "WARM"
    ELSE IF age >= 5 THEN "COOL"
    ELSE "COLD"

determine_lead_tier(age) ==
    IF age >= 15 THEN "HOT"
    ELSE IF age >= 10 THEN "WARM"
    ELSE IF age >= 5 THEN "COOL"
    ELSE "COLD"

\* variant: qualified only after the fifth year
is_qualified_lead_after_5(age) == age > 5

is_qualified_lead(age) == age >= 5

\* owner: which of phone / email the permit carries
calculate_contact_completeness(owner) ==
    IF owner.phone /\ owner.email THEN "complete"
    ELSE IF owner.phone \/ owner.email THEN "partial"
    ELSE "minimal"

----------------------------------------------------------------------------
(* PropertyAggregator: the property and lead tables.                       *)
(* props and leads are functions whose domain is the set of rows present;  *)
(* a property row is keyed by <<county, kind, n>>: kind "A" with the       *)
(* normalized address n, or kind "P" with the permit id n for a permit     *)
(* that carries no address.  A lead row is keyed by its property.          *)
(* A permit is [id, addr, date, owner, plain]; addr 0 is "no address" and   *)
(* NoDate "no opened_date"; plain says whether AddressNormalizer.normalize *)
(* leaves the text "PERMIT-<id>" as it is (it upper-cases and expands      *)
(* abbreviations, so an id with lower-case letters is not plain).          *)

NoOwner == [phone |-> FALSE, email |-> FALSE]

\* the normalized_address a property row is stored under
PropertyKey(county, permit) ==
    IF permit.addr # 0 THEN <<county, "A", permit.addr>>
    ELSE <<county, "P", permit.id>>

\* the normalized_address process_permit selects the existing property by:
\* parsed_address.normalized_address, or the text f"PERMIT-{permit_id}" itself
LookupKey(county, permit) ==
    IF permit.addr # 0 \/ permit.plain THEN PropertyKey(county, permit)
    ELSE <<county, "raw", permit.id>>

\* the columns _create_property and _update_property compute from a permit
DerivedFields(permit, today) ==
    LET hvac_age == calculate_hvac_age(today, permit.date)
    IN  [ most_recent_hvac_permit_id |-> permit.id,
          most_recent_hvac_date |-> permit.date,
          hvac_age_years |-> hvac_age,
          lead_score |-> calculate_lead_score(hvac_age),
          lead_tier |-> determine_lead_tier(hvac_age),
          is_qualified |-> is_qualified_lead(hvac_age),
          owner |-> permit.owner,
          contact_completeness |-> calculate_contact_completeness(permit.owner) ]

WithCount(fields, n) ==
    [ most_recent_hvac_permit_id |-> fields.most_recent_hvac_permit_id,
      most_recent_hvac_date |-> fields.most_recent_hvac_date,
      hvac_age_years |-> fields.hvac_age_years,
      lead_score |-> fields.lead_score,
      lead_tier |-> fields.lead_tier,
      is_qualified |-> fields.is_qualified,
      owner |-> fields.owner,
      contact_completeness |-> fields.contact_completeness,
      total_hvac_permits |-> n ]

Put(f, k, v) == [x \in (DOMAIN f) \cup {k} |-> IF x = k THEN v ELSE f[x]]

create_property(props, key, permit, today) ==
    Put(props, key, WithCount(DerivedFields(permit, today), 1))

update_property(props, key, permit, today) ==
    Put(props, key,
        WithCount(DerivedFields(permit, today), props[key].total_hvac_permits + 1))

increment_permit_counter(props, key) ==
    Put(props, key,
        [props[key] EXCEPT !.total_hvac_permits = props[key].total_hvac_permits + 1])

\* f"HVAC {hvac_age_years} years old"; no property carries a value here
create_qualification_reason(hvac_age_years) == <<"HVAC ", hvac_age_years, " years old">>

\* upsert on property_id: the disqualification columns are not in lead_data
create_lead(props, leads, key) ==
    LET p == props[key]
        old == IF key \in DOMAIN leads THEN leads[key]
               ELSE [disqualified |-> FALSE, disqualification_date |-> NoDate]
    IN  Put(leads, key,
            [ lead_score |-> p.lead_score,
              lead_tier |-> p.lead_tier,
              permit_id |-> p.most_recent_hvac_permit_id,
              qualification_reason |-> create_qualification_reason(p.hvac_age_years),
              disqualified |-> old.disqualified,
              disqualification_date |-> old.disqualification_date ])

\* variant: an update of a qualified lead leaves the disqualification columns
update_lead_keeps_disqualification(props, leads, key) ==
    LET p == props[key]
    IN  IF key \in DOMAIN leads
        THEN IF ~p.is_qualified
             THEN Put(leads, key,
                      [leads[key] EXCEPT !.lead_score = p.lead_score,
                                         !.lead_tier = p.lead_tier,
                                         !.disqualified = TRUE,
                                         !.disqualification_date = p.most_recent_hvac_date])
             ELSE Put(leads, key,
                      [leads[key] EXCEPT !.lead_score = p.lead_score,
                                         !.lead_tier = p.lead_tier,
                                         !.qualification_reason =
                                             create_qualification_reason(p.hvac_age_years)])
        ELSE create_lead(props, leads, key)

update_lead(props, leads, key) ==
    LET p == props[key]
    IN  IF key \in DOMAIN leads
        THEN IF ~p.is_qualified
             THEN Put(leads, key,
                      [leads[key] EXCEPT !.lead_score = p.lead_score,
                                         !.lead_tier = p.lead_tier,
                                         !.disqualified = TRUE,
                                         !.disqualification_date = p.most_recent_hvac_date])
             ELSE Put(leads, key,
                      [leads[key] EXCEPT !.lead_score = p.lead_score,
                                         !.lead_tier = p.lead_tier,
                                         !.qualification_reason =
                                             create_qualification_reason(p.hvac_age_years),
                                         !.disqualified = FALSE,
                                         !.disqualification_date = NoDate])
        ELSE create_lead(props, leads, key)

\* variant: the permit processed last always overwrites
LastProcessedWins(opened_date, current_hvac_date) == TRUE

\* the comparison of process_permit that decides between overwrite and count
IsMoreRecent(opened_date, current_hvac_date) ==
    current_hvac_date = NoDate \/ DateLT(current_hvac_date, opened_date)

\* fail: "none", "property" (the property write raises) or "lead" (the lead
\* write raises after the property write went through)
process_permit(props, leads, county, permit, today, fail) ==
    LET found == LookupKey(county, permit)
        key == PropertyKey(county, permit)
        same(raised) == [ props |-> props, leads |-> leads, property_id |-> <<>>,
                          has_lead |-> FALSE, was_created |-> FALSE, raised |-> raised,
                          prop_write |-> "none", lead_write |-> "none" ]
        lead_call(p2, k) == IF fail = "lead" THEN "none"
                            ELSE IF k \in DOMAIN leads THEN "update" ELSE "upsert"
    IN  IF permit.date = NoDate THEN same(FALSE)
        ELSE IF fail = "property" THEN same(TRUE)
        ELSE IF found \in DOMAIN props
        THEN IF IsMoreRecent(permit.date, props[found].most_recent_hvac_date)
             THEN LET p2 == update_property(props, found, permit, today)
                  IN  [ props |-> p2,
                        leads |-> IF fail = "lead" THEN leads ELSE update_lead(p2, leads, found),
                        property_id |-> found, has_lead |-> fail # "lead",
                        was_created |-> FALSE, raised |-> fail = "lead",
                        prop_write |-> "update", lead_write |-> lead_call(p2, found) ]
             ELSE [ props |-> increment_permit_counter(props, found), leads |-> leads,
                    property_id |-> found, has_lead |-> FALSE,
                    was_created |-> FALSE, raised |-> FALSE,
                    prop_write |-> "update", lead_write |-> "none" ]
        ELSE LET p2 == create_property(props, key, permit, today)
             IN  [ props |-> p2,
                   leads |-> IF fail = "lead" THEN leads ELSE create_lead(p2, leads, key),
                   property_id |-> key, has_lead |-> fail # "lead",
                   was_created |-> fail # "lead", raised |-> fail = "lead",
                   prop_write |-> "upsert",
                   lead_write |-> IF fail = "lead" THEN "none" ELSE "upsert" ]

----------------------------------------------------------------------------
(* State *)

VARIABLES
    counties,   \* counties table: county id -> status ("none": no row yet)
    jobs,       \* background_jobs table: job id -> row
    nextJob,    \* number of job rows inserted so far
    permits,    \* permits table: set of <<county, accela_record_id>>
    props,      \* properties table
    leads,      \* leads table
    rows,       \* per table, how many rows there are under each natural key
    upstream,   \* the record API's data: year -> number of records
    now,        \* wall clock, in minutes
    today,      \* date.today()
    pc,         \* where the processor's task is
    cur,        \* JobProcessor.current_job_id (0: None)
    snap,       \* the row _poll_and_process read (its local `job`)
    loc,        \* the locals of _process_initial_pull / _process_incremental_pull
    hist,       \* history: per job row, attempts started and how they ended
    last,       \* history: how the latest attempt ended
    trail,      \* history: token checks and fetches of the attempt in flight, and how
                \* many years it had begun when its row was cancelled (-1: not cancelled)
    aggLog,     \* history: the permits handed to process_permit, in order
    processor_instance, \* _processor_instance (0: None, else the loop it started)
    loops,      \* per JobProcessor object: is_running and where its start() task is
    limiter,    \* AccelaClient.rate_limiter: limit, remaining, reset and the counters
    wall,       \* time.time(), in seconds
    req,        \* the _make_request call in flight and how many were made
    token_result, \* what the job's ensure_valid_token call returned, and for which answer
    token_expires_at, \* the client's _token_expires_at, in seconds of wall; None
                \* when there is no token or no expiry, Unparsable when
                \* fromisoformat raises on it
    extra,      \* the record API's data: per year, the record it returns besides the
                \* year's own ("none", "stray": opened outside the window asked for,
                \* "null_date": openedDate is null)
    sched,      \* the scheduler's view of one county: the day it is, the county's
                \* next_pull_at, the parameters of the incremental_pull it created,
                \* and the windows asked for and fetched so far
    crashes     \* history: how often the server process died

\* the singleton and its polling loops
loopVars == << processor_instance, loops >>
\* the Accela client of the job in flight
clientVars == << limiter, wall, req, token_result, token_expires_at >>
\* what the record API returns beyond the records of the window
feedVars == << extra >>
schedVars == << sched >>
auxVars == << loopVars, clientVars, feedVars, schedVars >>

\* the tables, the clock, the one loop followed step by step, and its history
coreVars == << counties, jobs, nextJob, permits, props, leads, rows, upstream, now, today,
               pc, cur, snap, loc, hist, last, trail, aggLog, crashes >>

vars == << coreVars, auxVars >>

storeVars == << permits, props, leads, rows >>
procVars == << pc, cur, snap, loc >>

AbsentMap == [y \in Years |-> "absent"]
AbsentCounts == [y \in Years |-> -1]

NoJob ==
    [ status |-> "none", county |-> 0, job_type |-> "none", retry_count |-> 0,
      years_status |-> AbsentMap, per_year_permits |-> AbsentCounts,
      permits_pulled |-> 0, permits_saved |-> 0, properties_created |-> 0,
      properties_updated |-> 0, leads_created |-> 0, progress_percent |-> 0,
      current_year |-> 0, error |-> "none", requires_reauth |-> FALSE,
      updated_at |-> 0 ]

NoLoc ==
    [ years_status |-> AbsentMap, per_year_permits |-> AbsentCounts,
      total_permits_pulled |-> 0, total_permits_saved |-> 0,
      total_properties_created |-> 0, total_properties_updated |-> 0,
      total_leads_created |-> 0, years_processed |-> 0, year |-> 0,
      year_permits_pulled |-> 0, year_permits_saved |-> 0,
      year_properties_created |-> 0, year_properties_updated |-> 0,
      year_leads_created |-> 0, permit_count |-> 0, batch |-> 0, done |-> 0 ]

NoHist == [attempts |-> 0, failures |-> 0, record_failures |-> FALSE]
NoLast == [job |-> 0, outcome |-> "none", cause |-> "none"]
ExtraKinds == {"none", "stray", "null_date"}
NoExtra == [y \in Years |-> "none"]

\* no incremental_pull of the scheduler waits
NoParameters == << >>
\* the day the initial pull was completed on; the county is due at once
FirstDay == SchedulerLookbackDays
NewSchedule == [day |-> FirstDay, next_pull_at |-> FirstDay, parameters |-> NoParameters,
                asked |-> << >>, fetched |-> << >>]

\* None
None == -1
\* a text that int() or float() does not parse
Unparsable == -2

\* AccelaRateLimiter.__init__
NewLimiter == [limit |-> None, remaining |-> None, reset |-> None,
               total_pauses |-> 0, total_429_count |-> 0]

\* no _make_request call in flight; n counts the calls begun, error is what
\* the last call raised, timeouts how many attempts of the call timed out
NoRequest == [at |-> "idle", attempt |-> 0, n |-> 0, slept |-> FALSE, error |-> "none",
              timeouts |-> 0]

NoTokenResult == [cause |-> "none", success |-> FALSE, needs_reauth |-> FALSE]

\* a JobProcessor that was not constructed yet
LoopIds == 1..MaxLoops
NoLoop == [is_running |-> FALSE, at |-> "none"]

\* what is remembered of the attempt under way: the years whose cancellation
\* check ran, the years fetched, where the cancellation came, and the jobs that
\* were pending when the attempt's job was claimed
NoTrail == [checked |-> {}, fetched |-> << >>, cancel_at |-> -1, queue |-> {}]

\* a new background_jobs row, as the four creating paths insert it
NewJob(county, job_type, t) ==
    [NoJob EXCEPT !.status = "pending", !.county = county, !.job_type = job_type,
                  !.updated_at = t]

\* a county row is there ("deleted": the row is gone, its id is never used again)
CountyExists(c) == counties[c] \notin {"none", "deleted"}

ActiveJobs(js, county) ==
    {j \in JobIds : js[j].county = county /\ js[j].status \in Active}

\* UPDATE background_jobs SET ... WHERE id = j
UpdateJob(js, j, row) == IF js[j].status = "none" THEN js ELSE [js EXCEPT ![j] = row]

\* the record API's data
RecordId(y, i) == (y - 1) * MaxPerYear + i
Record(y, i) ==
    [id |-> RecordId(y, i), addr |-> i, date |-> <<y, 1, 1>>, owner |-> NoOwner, plain |-> TRUE]

\* the record returned besides: a record opened a year before or after the
\* window, or a record whose openedDate is null
ExtraId(y) == (YearsParam + 1) * MaxPerYear + y
StrayDate(y) == <<IF y > 1 THEN y - 1 ELSE y + 1, 1, 1>>
ExtraRecord(y, kind) ==
    [id |-> ExtraId(y), addr |-> MaxPerYear + 1,
     date |-> IF kind = "stray" THEN StrayDate(y) ELSE NoDate,
     owner |-> NoOwner, plain |-> TRUE]
ExtraCount(kind) == IF kind = "none" THEN 0 ELSE 1

\* p.get('openedDate', '')[:10] >= year_start and ... <= year_end
InWindow(d, y) == d # NoDate /\ d[1] = y

----------------------------------------------------------------------------
(* The rows behind the tables.  .upsert(row, on_conflict=key) writes the    *)
(* row that has the key when there is one and adds a row otherwise;         *)
(* .update(...).eq('id', ...) adds none.                                   *)

EmptyRows == [permits |-> << >>, props |-> << >>, leads |-> << >>]

RowCount(t, k) == IF k \in DOMAIN t THEN t[k] ELSE 0

\* variant: .insert(row), a row more whatever is there
InsertRow(t, k) == Put(t, k, RowCount(t, k) + 1)

UpsertRow(t, k) == Put(t, k, IF k \in DOMAIN t THEN t[k] ELSE 1)

ApplyWrite(t, k, write) == IF write = "upsert" THEN UpsertRow(t, k) ELSE t

\* the rows after one record went through _save_permit and process_permit,
\* e naming the writes that were made
RowsAfter(rs, county, permit, e) ==
    [ permits |-> ApplyWrite(rs.permits, <<county, permit.id>>, e.permit_write),
      props |-> ApplyWrite(rs.props, PropertyKey(county, permit), e.prop_write),
      leads |-> ApplyWrite(rs.leads, PropertyKey(county, permit), e.lead_write) ]

\* empty tables, the server process not started yet
Fresh ==
    /\ counties = [c \in CountyIds |-> "none"]
    /\ jobs = [j \in JobIds |-> NoJob]
    /\ nextJob = 0
    /\ permits = {}
    /\ props = << >>
    /\ leads = << >>
    /\ rows = EmptyRows
    /\ now = 0
    /\ pc = "down"
    /\ cur = 0
    /\ snap = NoJob
    /\ loc = NoLoc
    /\ hist = [j \in JobIds |-> NoHist]
    /\ last = NoLast
    /\ trail = NoTrail
    /\ aggLog = << >>
    /\ crashes = 0
    /\ processor_instance = 0
    /\ loops = [l \in LoopIds |-> NoLoop]
    /\ limiter = NewLimiter
    /\ wall = 0
    /\ req = NoRequest
    /\ token_result = NoTokenResult
    /\ token_expires_at = None
    /\ extra = NoExtra
    /\ sched = NewSchedule

Init ==
    /\ Fresh
    /\ upstream \in [Years -> 0..MaxPerYear]
    /\ today = <<YearsParam + 1, 6, 15>>

----------------------------------------------------------------------------
(* The endpoints, the scheduler and the clock *)

InsertJob(county, job_type) ==
    /\ nextJob < MaxJobs
    /\ nextJob' = nextJob + 1
    /\ jobs' = [jobs EXCEPT ![nextJob + 1] = NewJob(county, job_type, now)]

\* POST /api/counties: the county row and its initial_pull job, no check
CreateCounty(c) ==
    /\ counties[c] = "none"
    /\ \A d \in CountyIds : d < c => counties[d] # "none"
    /\ counties' = [counties EXCEPT ![c] = "pending_authorization"]
    /\ InsertJob(c, "initial_pull")
    /\ UNCHANGED << storeVars, upstream, now, today, procVars, hist, trail, aggLog, crashes, auxVars >>
    /\ last' = NoLast

\* POST /api/counties/{id}/oauth/password-setup, the token exchange having
\* succeeded; initial_pull_completed is a column no code of the repository sets
SetupCountyWithPassword(c, initial_pull_completed) ==
    /\ CountyExists(c)
    /\ counties' = [counties EXCEPT ![c] = "connected"]
    /\ IF ~initial_pull_completed
       THEN InsertJob(c, "initial_pull")
       ELSE UNCHANGED << jobs, nextJob >>
    /\ UNCHANGED << storeVars, upstream, now, today, procVars, hist, trail, aggLog, crashes, auxVars >>
    /\ last' = NoLast

\* POST /api/background-jobs/counties/{id}/jobs: 409 when a job is pending or running
CreateJob(c, job_type) ==
    /\ CountyExists(c)
    /\ ActiveJobs(jobs, c) = {}
    /\ InsertJob(c, job_type)
    /\ UNCHANGED << counties, storeVars, upstream, now, today, procVars, hist, trail, aggLog, crashes, auxVars >>
    /\ last' = NoLast

\* POST /api/background-jobs/jobs/{id}/cancel
CancelJob(j) ==
    /\ jobs[j].status \in Active
    /\ jobs' = [jobs EXCEPT ![j].status = "cancelled", ![j].updated_at = now]
    /\ trail' = IF j = cur
                THEN [trail EXCEPT !.cancel_at = Cardinality(trail.checked)]
                ELSE trail
    /\ UNCHANGED << counties, nextJob, storeVars, upstream, now, today, procVars, hist, aggLog, crashes, auxVars >>
    /\ last' = NoLast

\* DELETE /api/background-jobs/jobs/{id}
DeleteJob(j) ==
    /\ jobs[j].status \in Terminal
    /\ jobs' = [jobs EXCEPT ![j] = NoJob]
    /\ hist' = [hist EXCEPT ![j] = NoHist]
    /\ UNCHANGED << counties, nextJob, storeVars, upstream, now, today, procVars, trail, aggLog, crashes, auxVars >>
    /\ last' = NoLast

\* DELETE /api/counties/{id}: permits, properties, leads, jobs and the county
DeleteCounty(c) ==
    /\ CountyExists(c)
    /\ counties' = [counties EXCEPT ![c] = "deleted"]
    /\ jobs' = [j \in JobIds |-> IF jobs[j].county = c THEN NoJob ELSE jobs[j]]
    /\ permits' = {p \in permits : p[1] # c}
    /\ props' = [k \in {x \in DOMAIN props : x[1] # c} |-> props[k]]
    /\ leads' = [k \in {x \in DOMAIN leads : x[1] # c} |-> leads[k]]
    /\ rows' = [ permits |-> [k \in {x \in DOMAIN rows.permits : x[1] # c} |-> rows.permits[k]],
                 props |-> [k \in {x \in DOMAIN rows.props : x[1] # c} |-> rows.props[k]],
                 leads |-> [k \in {x \in DOMAIN rows.leads : x[1] # c} |-> rows.leads[k]] ]
    /\ hist' = [j \in JobIds |-> IF jobs[j].county = c THEN NoHist ELSE hist[j]]
    /\ UNCHANGED << nextJob, upstream, now, today, procVars, trail, aggLog, crashes, auxVars >>
    /\ last' = NoLast

\* PullScheduler._check_and_schedule_pulls for one due county whose
\* initial_pull_completed is set and whose range was not pulled yet
SchedulerCheck(c) ==
    /\ CountyExists(c)
    /\ ActiveJobs(jobs, c) = {}
    /\ InsertJob(c, "incremental_pull")
    /\ UNCHANGED << counties, storeVars, upstream, now, today, procVars, hist, trail, aggLog, crashes, auxVars >>
    /\ last' = NoLast

\* The clock is read against a row only by _recover_stale_jobs, at start-up, and
\* only for 'running' rows: the steps of a live process take no model time, and
\* time passes while the process is down and a row is 'running'.
Tick ==
    /\ pc = "down"
    /\ \E j \in JobIds : jobs[j].status = "running"
    /\ now + TickMinutes <= MaxTime
    /\ now' = now + TickMinutes
    /\ UNCHANGED << counties, jobs, nextJob, storeVars, upstream, today, procVars, hist, trail, aggLog, crashes, auxVars >>
    /\ last' = NoLast

\* the server process dies: the task and its locals are gone, the tables stay
Crash ==
    /\ pc # "down"
    /\ crashes < MaxCrashes
    /\ crashes' = crashes + 1
    /\ pc' = "down"
    /\ cur' = 0
    /\ snap' = NoJob
    /\ loc' = NoLoc
    /\ trail' = NoTrail
    /\ UNCHANGED << counties, jobs, nextJob, storeVars, upstream, now, today, hist, aggLog, auxVars >>
    /\ last' = NoLast

----------------------------------------------------------------------------
(* JobProcessor: the decisions of the code, one operator each *)

\* variant: a row exactly 10 minutes old counts as stale
IsStaleInclusive(row, t) == row.status = "running" /\ row.updated_at <= t - StaleMinutes

\* _recover_stale_jobs: .eq('status', 'running').lt('updated_at', now - 10 min)
IsStale(row, t) == row.status = "running" /\ row.updated_at < t - StaleMinutes

\* variant: one more retry is granted
RetryAllowedInclusive(retry_count, max_retries) == retry_count <= max_retries

\* _poll_and_process: if retry_count < max_retries
RetryAllowed(retry_count, max_retries) == retry_count < max_retries

\* _is_job_cancelled_or_deleted
IsJobCancelledOrDeleted(js, j) == js[j].status \in {"none", "cancelled", "failed", "completed"}

\* should_update = (permit_count % 50 == 0) or 30 seconds since the last update
ShouldUpdate(permit_count, elapsed30) == (permit_count % ProgressEvery = 0) \/ elapsed30

IsResuming(existing_years_status) == \E y \in Years : existing_years_status[y] # "absent"

\* variant: the stored map is not merged in
InitialYearsStatusFresh(existing_years_status) == [y \in Years |-> "not_started"]

\* {year: 'not_started'} for the whole range, then .update(existing_years_status)
InitialYearsStatus(existing_years_status) ==
    [y \in Years |-> IF existing_years_status[y] # "absent"
                     THEN existing_years_status[y] ELSE "not_started"]

InitialPerYearPermits(existing_years_status, existing_per_year_permits) ==
    IF IsResuming(existing_years_status) THEN existing_per_year_permits ELSE AbsentCounts

RECURSIVE SumCompleted(_, _, _)
SumCompleted(existing_years_status, existing_per_year_permits, y) ==
    IF y = 0 THEN 0
    ELSE SumCompleted(existing_years_status, existing_per_year_permits, y - 1)
         + (IF existing_years_status[y] = "completed" /\ existing_per_year_permits[y] >= 0
            THEN existing_per_year_permits[y] ELSE 0)

\* the totals a resumed attempt starts from
RestoredPermitsPulled(existing_years_status, existing_per_year_permits) ==
    SumCompleted(existing_years_status, existing_per_year_permits, YearsParam + 1)

\* variant: no year is skipped
NeverSkipsYear(years_status, y) == FALSE

\* if years_status.get(year_str) == 'completed': continue
SkipsYear(years_status, y) == years_status[y] = "completed"

\* min(100, int((years_processed / total_years) * 100)), total_years = years
ProgressPercent(years_processed) == Min2(100, (years_processed * 100) \div YearsParam)

\* variant: the except branch writes nothing, the row stays as the claim left it
FailureNotWritten(js, j, job, t) == js

\* except Exception: back to pending with retry_count + 1, or failed
\* variant: the last failure of a job is not written
GenericFailure_without_final_write(js, j, job, t) ==
    IF RetryAllowed(job.retry_count, DefaultMaxRetries)
    THEN UpdateJob(js, j, [js[j] EXCEPT !.status = "pending",
                                        !.retry_count = job.retry_count + 1,
                                        !.current_year = 0,
                                        !.error = "retry",
                                        !.updated_at = t])
    ELSE js

GenericFailure(js, j, job, t) ==
    IF RetryAllowed(job.retry_count, DefaultMaxRetries)
    THEN UpdateJob(js, j, [js[j] EXCEPT !.status = "pending",
                                        !.retry_count = job.retry_count + 1,
                                        !.current_year = 0,
                                        !.error = "retry",
                                        !.updated_at = t])
    ELSE UpdateJob(js, j, [js[j] EXCEPT !.status = "failed",
                                        !.error = "failed",
                                        !.updated_at = t])

\* except TokenExpiredError: failed at once
TokenFailure(js, j, t) ==
    UpdateJob(js, j, [js[j] EXCEPT !.status = "failed",
                                   !.error = "reauth",
                                   !.requires_reauth = TRUE,
                                   !.updated_at = t])

\* _update_job_status(job_id, 'completed', progress_percent=100)
Completed(js, j, t) ==
    UpdateJob(js, j, [js[j] EXCEPT !.status = "completed",
                                   !.progress_percent = 100,
                                   !.updated_at = t])

GenericOutcome(job) ==
    IF RetryAllowed(job.retry_count, DefaultMaxRetries) THEN "retry" ELSE "failed"

\* the attempt is over: finally: current_job_id = None
EndAttempt(outcome, cause) ==
    /\ pc' = "idle"
    /\ cur' = 0
    /\ snap' = NoJob
    /\ loc' = NoLoc
    /\ trail' = NoTrail
    /\ last' = [job |-> cur, outcome |-> outcome, cause |-> cause]

\* an exception other than TokenExpiredError leaves the attempt
RaiseGeneric(js, cause) ==
    /\ jobs' = GenericFailure(js, cur, snap, now)
    /\ hist' = [hist EXCEPT ![cur].failures = hist[cur].failures + 1]
    /\ EndAttempt(GenericOutcome(snap), cause)

\* needs_reauth: the county is marked disconnected, TokenExpiredError is raised
RaiseTokenExpired(cause) ==
    /\ counties' = [counties EXCEPT ![snap.county] =
                        IF CountyExists(snap.county) THEN "disconnected"
                        ELSE counties[snap.county]]
    /\ jobs' = TokenFailure(jobs, cur, now)
    /\ EndAttempt("token_failed", cause)

----------------------------------------------------------------------------
(* JobProcessor: the polling loop *)

\* start(): _recover_stale_jobs, then the loop
Start ==
    /\ pc = "down"
    /\ pc' = "idle"
    /\ jobs' = [j \in JobIds |->
                   IF IsStale(jobs[j], now)
                   THEN [jobs[j] EXCEPT !.status = "pending", !.error = "recovered",
                                        !.updated_at = now]
                   ELSE jobs[j]]
    /\ UNCHANGED << counties, nextJob, storeVars, upstream, now, today, cur, snap, loc,
                    hist, trail, aggLog, crashes, auxVars >>
    /\ last' = NoLast

\* .eq('status', 'pending').order('created_at').limit(1); rows are inserted with
\* created_at = the time of the insert, so the id order is the created_at order
PendingJobs(js) == {j \in JobIds : js[j].status = "pending"}

\* variant: .limit(1) without the order, any pending job
AnyPending(js) == PendingJobs(js)

\* .eq('status', 'pending').order('created_at', desc=False).limit(1); rows are
\* numbered in the order they were inserted, which is the order of created_at
OldestPending(js) ==
    {j \in JobIds : /\ js[j].status = "pending"
                    /\ \A k \in JobIds : js[k].status = "pending" => j <= k}

\* _poll_and_process up to the dispatch on job_type
Poll(j) ==
    /\ pc = "idle"
    /\ j \in OldestPending(jobs)
    /\ hist' = [hist EXCEPT ![j].attempts = hist[j].attempts + 1]
    /\ IF jobs[j].job_type = "property_aggregation"
       THEN \* _process_property_aggregation does nothing
            /\ jobs' = Completed([jobs EXCEPT ![j].status = "running",
                                              ![j].updated_at = now], j, now)
            /\ last' = [job |-> j, outcome |-> "completed", cause |-> "none"]
            /\ UNCHANGED << pc, cur, snap, loc >>
       ELSE /\ jobs' = [jobs EXCEPT ![j].status = "running", ![j].updated_at = now]
            /\ pc' = "validate"
            /\ cur' = j
            /\ snap' = jobs[j]
            /\ loc' = NoLoc
            /\ last' = NoLast
    /\ trail' = IF jobs[j].job_type = "property_aggregation" THEN NoTrail
                ELSE [NoTrail EXCEPT !.queue = PendingJobs(jobs)]
    /\ UNCHANGED << counties, nextJob, storeVars, upstream, now, today, aggLog, crashes, auxVars >>

\* the county and credentials lookups and the first ensure_valid_token; for an
\* initial_pull, on success, the years_status the job is initialised with
Validate(outcome) ==
    /\ pc = "validate"
    /\ IF ~CountyExists(snap.county) \/ outcome = "transient"
       THEN /\ RaiseGeneric(jobs, "transient")
            /\ UNCHANGED counties
       ELSE IF outcome = "reauth"
       THEN /\ RaiseTokenExpired("token_check")
            /\ UNCHANGED hist
       ELSE /\ IF snap.job_type = "initial_pull"
               THEN LET ys == InitialYearsStatus(snap.years_status)
                    IN  /\ loc' = [NoLoc EXCEPT
                               !.years_status = ys,
                               !.per_year_permits =
                                   InitialPerYearPermits(snap.years_status, snap.per_year_permits),
                               !.total_permits_pulled =
                                   IF IsResuming(snap.years_status)
                                   THEN RestoredPermitsPulled(snap.years_status,
                                                              snap.per_year_permits)
                                   ELSE 0,
                               !.year = 1]
                        /\ jobs' = UpdateJob(jobs, cur,
                                       [jobs[cur] EXCEPT !.years_status = ys,
                                                         !.updated_at = now])
                        /\ pc' = "year"
               ELSE /\ loc' = NoLoc
                    /\ jobs' = jobs
                    /\ pc' = "inc_fetch"
            /\ UNCHANGED << counties, cur, snap, hist, trail >>
            /\ last' = NoLast
    /\ UNCHANGED << nextJob, storeVars, upstream, now, today, aggLog, crashes, auxVars >>

\* the year loop skips a completed year
SkipYear ==
    /\ pc = "year"
    /\ loc.year <= YearsParam + 1
    /\ SkipsYear(loc.years_status, loc.year)
    /\ loc' = [loc EXCEPT !.years_processed = loc.years_processed + 1,
                          !.year = loc.year + 1]
    /\ UNCHANGED << counties, jobs, nextJob, storeVars, upstream, now, today, pc, cur, snap,
                    hist, trail, aggLog, crashes, auxVars >>
    /\ last' = NoLast

\* the token check at the year boundary, then the year is marked in_progress
BeginYear(outcome) ==
    /\ pc = "year"
    /\ loc.year <= YearsParam + 1
    /\ ~SkipsYear(loc.years_status, loc.year)
    /\ IF outcome = "reauth"
       THEN /\ RaiseTokenExpired("token_check")
            /\ UNCHANGED hist
       ELSE IF outcome = "transient"
       THEN /\ RaiseGeneric(jobs, "transient")
            /\ UNCHANGED counties
       ELSE LET ys == [loc.years_status EXCEPT ![loc.year] = "in_progress"]
            IN  /\ loc' = [loc EXCEPT !.years_status = ys,
                                      !.year_permits_pulled = 0,
                                      !.year_permits_saved = 0,
                                      !.year_properties_created = 0,
                                      !.year_properties_updated = 0,
                                      !.year_leads_created = 0,
                                      !.permit_count = 0,
                                      !.batch = 0, !.done = 0]
                /\ jobs' = UpdateJob(jobs, cur,
                               [jobs[cur] EXCEPT !.current_year = loc.year,
                                                 !.years_status = ys,
                                                 !.updated_at = now])
                /\ pc' = "fetch"
                /\ trail' = [trail EXCEPT !.checked = trail.checked \cup {loc.year}]
                /\ UNCHANGED << counties, cur, snap, hist >>
                /\ last' = NoLast
    /\ UNCHANGED << nextJob, storeVars, upstream, now, today, aggLog, crashes, auxVars >>

----------------------------------------------------------------------------
(* JobProcessor: one year of an initial pull *)

\* _save_permit and PropertyAggregator.process_permit for one record, inside the
\* per-record try/except.  outcome: "ok", "save" (_save_permit raises) or "lead"
\* (process_permit raises at the lead write).
RecordEffect(pm, pr, ld, county, permit, td, outcome) ==
    IF outcome = "save"
    THEN [ permits |-> pm, props |-> pr, leads |-> ld, saved |-> 0, created |-> 0,
           updated |-> 0, leads_created |-> 0, failed |-> TRUE,
           permit_write |-> "none", prop_write |-> "none", lead_write |-> "none" ]
    ELSE LET was_inserted == <<county, permit.id>> \notin pm
             r == process_permit(pr, ld, county, permit, td,
                                 IF outcome = "lead" THEN "lead" ELSE "none")
             counted == ~r.raised /\ r.property_id # << >>
         IN  [ permits |-> pm \cup {<<county, permit.id>>},
               props |-> r.props, leads |-> r.leads,
               saved |-> IF was_inserted THEN 1 ELSE 0,
               created |-> IF counted /\ r.was_created THEN 1 ELSE 0,
               leads_created |-> IF counted /\ r.was_created /\ r.has_lead THEN 1 ELSE 0,
               updated |-> IF counted /\ ~r.was_created THEN 1 ELSE 0,
               failed |-> r.raised,
               permit_write |-> IF was_inserted THEN "upsert" ELSE "none",
               prop_write |-> r.prop_write, lead_write |-> r.lead_write ]

\* len(filtered_batch): the records of the batch whose openedDate is inside the
\* year
FilteredBatchSize(y) ==
    upstream[y] + (IF extra[y] # "none" /\ InWindow(ExtraRecord(y, extra[y]).date, y)
                   THEN 1 ELSE 0)

\* record number i of the batch of year y, the year's own records first
BatchRecord(y, i) == IF i <= upstream[y] THEN Record(y, i) ELSE ExtraRecord(y, extra[y])

\* async for batch in get_permits_stream(date_from, date_to): the year's batches,
\* or an exception out of the stream.  The stream is not part of the source
\* tree; what reaches the loop is either the records, a TokenExpiredError
\* ("token_expired": except TokenExpiredError) or any other error ("transient").
FetchYear(outcome) ==
    /\ pc = "fetch"
    /\ IF outcome = "transient"
       THEN RaiseGeneric(jobs, "transient")
       ELSE IF outcome = "token_expired"
       THEN /\ jobs' = TokenFailure(jobs, cur, now)
            /\ EndAttempt("token_failed", "token_expired")
            /\ UNCHANGED hist
       ELSE IF extra[loc.year] = "null_date"
       THEN \* None[:10] in the comprehension that builds filtered_batch
            RaiseGeneric(jobs, "bad_record")
       ELSE LET batch_size == upstream[loc.year] + ExtraCount(extra[loc.year])
            IN  /\ loc' = [loc EXCEPT
                       !.batch = FilteredBatchSize(loc.year),
                       !.done = 0,
                       !.year_permits_pulled = batch_size,
                       !.total_permits_pulled = loc.total_permits_pulled + batch_size]
                /\ pc' = IF FilteredBatchSize(loc.year) = 0 THEN "endyear" ELSE "records"
                /\ trail' = [trail EXCEPT !.fetched = Append(trail.fetched, loc.year)]
                /\ UNCHANGED << jobs, cur, snap, hist >>
                /\ last' = NoLast
    /\ UNCHANGED << counties, nextJob, storeVars, upstream, now, today, aggLog, crashes, auxVars >>

\* one pass of "for permit in filtered_batch"
ProcessRecord(elapsed30, outcome) ==
    /\ pc = "records"
    /\ loc.done < loc.batch
    /\ LET permit_count == loc.permit_count + 1
           should_update == ShouldUpdate(permit_count, elapsed30)
       IN  IF should_update /\ IsJobCancelledOrDeleted(jobs, cur)
           THEN \* raise Exception("Job was cancelled or deleted by user")
                /\ RaiseGeneric(jobs, "cancelled")
                /\ UNCHANGED storeVars
           ELSE LET js == IF should_update
                          THEN UpdateJob(jobs, cur,
                                   [jobs[cur] EXCEPT
                                       !.permits_pulled = loc.total_permits_pulled,
                                       !.permits_saved = loc.total_permits_saved
                                                         + loc.year_permits_saved,
                                       !.current_year = loc.year,
                                       !.updated_at = now])
                          ELSE jobs
                    e == RecordEffect(permits, props, leads, snap.county,
                                      BatchRecord(loc.year, loc.done + 1), today,
                                      IF CountyExists(snap.county) THEN outcome ELSE "save")
                IN  /\ jobs' = js
                    /\ permits' = e.permits
                    /\ props' = e.props
                    /\ leads' = e.leads
                    /\ rows' = RowsAfter(rows, snap.county,
                                         BatchRecord(loc.year, loc.done + 1), e)
                    /\ loc' = [loc EXCEPT
                           !.permit_count = permit_count,
                           !.done = loc.done + 1,
                           !.year_permits_saved = loc.year_permits_saved + e.saved,
                           !.year_properties_created = loc.year_properties_created + e.created,
                           !.year_properties_updated = loc.year_properties_updated + e.updated,
                           !.year_leads_created = loc.year_leads_created + e.leads_created]
                    /\ hist' = [hist EXCEPT ![cur].record_failures =
                                                hist[cur].record_failures \/ e.failed]
                    /\ pc' = IF loc.done + 1 = loc.batch THEN "endyear" ELSE "records"
                    /\ UNCHANGED << cur, snap, trail >>
                    /\ last' = NoLast
    /\ UNCHANGED << counties, nextJob, upstream, now, today, aggLog, crashes, auxVars >>

\* after the stream: the year is marked completed and the progress written
EndYear ==
    /\ pc = "endyear"
    /\ LET y == loc.year
           ys == [loc.years_status EXCEPT ![y] = "completed"]
           pyp == [loc.per_year_permits EXCEPT ![y] = loc.year_permits_pulled]
           processed == loc.years_processed + 1
       IN  IF loc.year_permits_pulled = 0
           THEN /\ loc' = [loc EXCEPT !.years_status = ys, !.per_year_permits = pyp,
                                      !.years_processed = processed, !.year = y + 1]
                /\ jobs' = UpdateJob(jobs, cur,
                               [jobs[cur] EXCEPT
                                   !.progress_percent = ProgressPercent(processed),
                                   !.years_status = ys,
                                   !.per_year_permits = pyp,
                                   !.updated_at = now])
           ELSE LET l2 == [loc EXCEPT
                       !.total_permits_saved = loc.total_permits_saved + loc.year_permits_saved,
                       !.total_properties_created =
                           loc.total_properties_created + loc.year_properties_created,
                       !.total_properties_updated =
                           loc.total_properties_updated + loc.year_properties_updated,
                       !.total_leads_created = loc.total_leads_created + loc.year_leads_created,
                       !.years_status = ys, !.per_year_permits = pyp,
                       !.years_processed = processed, !.year = y + 1]
                IN  /\ loc' = l2
                    /\ jobs' = UpdateJob(jobs, cur,
                                   [jobs[cur] EXCEPT
                                       !.permits_pulled = l2.total_permits_pulled,
                                       !.permits_saved = l2.total_permits_saved,
                                       !.properties_created = l2.total_properties_created,
                                       !.properties_updated = l2.total_properties_updated,
                                       !.leads_created = l2.total_leads_created,
                                       !.current_year = y,
                                       !.per_year_permits = pyp,
                                       !.progress_percent = ProgressPercent(processed),
                                       !.years_status = ys,
                                       !.updated_at = now])
    /\ pc' = "year"
    /\ UNCHANGED << counties, nextJob, storeVars, upstream, now, today, cur, snap,
                    hist, trail, aggLog, crashes, auxVars >>
    /\ last' = NoLast

\* the final update of _process_initial_pull and the 'completed' write
FinishInitial ==
    /\ pc = "year"
    /\ loc.year > YearsParam + 1
    /\ jobs' = Completed(UpdateJob(jobs, cur,
                   [jobs[cur] EXCEPT
                       !.permits_pulled = loc.total_permits_pulled,
                       !.permits_saved = loc.total_permits_saved,
                       !.properties_created = loc.total_properties_created,
                       !.properties_updated = loc.total_properties_updated,
                       !.leads_created = loc.total_leads_created,
                       !.progress_percent = 100,
                       !.per_year_permits = loc.per_year_permits,
                       !.years_status = loc.years_status,
                       !.updated_at = now]), cur, now)
    /\ EndAttempt("completed", "none")
    /\ UNCHANGED << counties, nextJob, storeVars, upstream, now, today, hist, aggLog, crashes, auxVars >>

----------------------------------------------------------------------------
(* JobProcessor: incremental pull.  The window [today - days_back, today]  *)
(* holds the records of the latest year of the upstream data.              *)

LatestYear == YearsParam + 1

\* get_permits -> _make_request: the pages, or an error.  "token_rejected":
\* _ensure_valid_token finds the token expired, the token endpoint answers the
\* refresh with 400/401 and raise_for_status raises httpx.HTTPStatusError.
FetchIncremental(outcome) ==
    /\ pc = "inc_fetch"
    /\ IF outcome # "ok"
       THEN /\ RaiseGeneric(jobs, IF outcome = "token_rejected"
                                  THEN "token_rejected" ELSE "transient")
       ELSE /\ loc' = [loc EXCEPT
                   !.year = LatestYear,
                   !.batch = upstream[LatestYear] + ExtraCount(extra[LatestYear]),
                   !.done = 0,
                   !.total_permits_pulled =
                       upstream[LatestYear] + ExtraCount(extra[LatestYear])]
            /\ pc' = "inc_records"
            /\ trail' = [trail EXCEPT !.fetched = Append(trail.fetched, LatestYear)]
            /\ UNCHANGED << jobs, cur, snap, hist >>
            /\ last' = NoLast
    /\ UNCHANGED << counties, nextJob, storeVars, upstream, now, today, aggLog, crashes, auxVars >>

\* one pass of "for permit in permits": no cancellation check here
ProcessIncrementalRecord(outcome) ==
    /\ pc = "inc_records"
    /\ loc.done < loc.batch
    /\ LET e == RecordEffect(permits, props, leads, snap.county,
                             BatchRecord(loc.year, loc.done + 1), today,
                             IF CountyExists(snap.county) THEN outcome ELSE "save")
       IN  /\ permits' = e.permits
           /\ props' = e.props
           /\ leads' = e.leads
           /\ rows' = RowsAfter(rows, snap.county, BatchRecord(loc.year, loc.done + 1), e)
           /\ loc' = [loc EXCEPT
                  !.done = loc.done + 1,
                  !.total_permits_saved = loc.total_permits_saved + e.saved,
                  !.total_properties_created = loc.total_properties_created + e.created,
                  !.total_properties_updated = loc.total_properties_updated + e.updated,
                  !.total_leads_created = loc.total_leads_created + e.leads_created]
           /\ hist' = [hist EXCEPT ![cur].record_failures =
                                       hist[cur].record_failures \/ e.failed]
    /\ UNCHANGED << counties, jobs, nextJob, upstream, now, today, pc, cur, snap,
                    trail, aggLog, crashes, auxVars >>
    /\ last' = NoLast

\* the closing update of _process_incremental_pull and the 'completed' write
FinishIncremental ==
    /\ pc = "inc_records"
    /\ loc.done = loc.batch
    /\ jobs' = Completed(UpdateJob(jobs, cur,
                   [jobs[cur] EXCEPT
                       !.permits_pulled = loc.total_permits_pulled,
                       !.permits_saved = loc.total_permits_saved,
                       !.properties_created = loc.total_properties_created,
                       !.properties_updated = loc.total_properties_updated,
                       !.leads_created = loc.total_leads_created,
                       !.progress_percent = 100,
                       !.updated_at = now]), cur, now)
    /\ EndAttempt("completed", "none")
    /\ UNCHANGED << counties, nextJob, storeVars, upstream, now, today, hist, aggLog, crashes, auxVars >>

----------------------------------------------------------------------------
(* One county and its initial pull, followed through every attempt, with   *)
(* cancellation, deletion of the finished row, and a crash of the server.  *)

JobTypes == {"initial_pull", "incremental_pull", "property_aggregation"}
TokenOutcomes == {"ok", "transient", "reauth"}
StreamOutcomes == {"ok", "transient", "token_expired"}
FetchOutcomes == {"ok", "transient", "token_rejected"}
RecordOutcomes == {"ok", "save", "lead"}

Next ==
    \/ \E c \in CountyIds : CreateCounty(c)
    \/ \E j \in JobIds : CancelJob(j)
    \/ \E j \in JobIds : DeleteJob(j)
    \/ Tick
    \/ Crash
    \/ Start
    \/ \E j \in JobIds : Poll(j)
    \/ \E o \in TokenOutcomes : Validate(o)
    \/ SkipYear
    \/ \E o \in TokenOutcomes : BeginYear(o)
    \/ \E o \in StreamOutcomes : FetchYear(o)
    \/ \E e \in BOOLEAN, o \in RecordOutcomes : ProcessRecord(e, o)
    \/ EndYear
    \/ FinishInitial

Spec == Init /\ [][Next]_vars

----------------------------------------------------------------------------
(* The whole job table: every path that creates, cancels or deletes rows,  *)
(* all job types, over an upstream whose records are all of the latest     *)
(* year.  The server stays up.                                             *)

TableInit == Init /\ \A y \in Years : upstream[y] = IF y = LatestYear THEN MaxPerYear ELSE 0

TableNext ==
    \/ \E c \in CountyIds : CreateCounty(c)
    \/ \E c \in CountyIds, done \in BOOLEAN : SetupCountyWithPassword(c, done)
    \/ \E c \in CountyIds, t \in JobTypes : CreateJob(c, t)
    \/ \E j \in JobIds : CancelJob(j)
    \/ \E j \in JobIds : DeleteJob(j)
    \/ \E c \in CountyIds : DeleteCounty(c)
    \/ \E c \in CountyIds : SchedulerCheck(c)
    \/ Start
    \/ \E j \in JobIds : Poll(j)
    \/ \E o \in TokenOutcomes : Validate(o)
    \/ SkipYear
    \/ \E o \in TokenOutcomes : BeginYear(o)
    \/ \E o \in StreamOutcomes : FetchYear(o)
    \/ \E e \in BOOLEAN, o \in RecordOutcomes : ProcessRecord(e, o)
    \/ EndYear
    \/ FinishInitial
    \/ \E o \in FetchOutcomes : FetchIncremental(o)
    \/ \E o \in RecordOutcomes : ProcessIncrementalRecord(o)
    \/ FinishIncremental

TableSpec == TableInit /\ [][TableNext]_vars

----------------------------------------------------------------------------
(* The pulls over an upstream that answers a window with a record more:    *)
(* one opened outside the window, or one whose openedDate is null.  One    *)
(* county, its initial pull and an incremental pull after it; nobody       *)
(* cancels or deletes, the server stays up, the token is valid and every   *)
(* call is answered: what goes wrong is in the records.                    *)

PullInit ==
    /\ counties = [c \in CountyIds |-> "none"]
    /\ jobs = [j \in JobIds |-> NoJob]
    /\ nextJob = 0
    /\ permits = {} /\ props = << >> /\ leads = << >> /\ rows = EmptyRows
    /\ now = 0 /\ pc = "down" /\ cur = 0 /\ snap = NoJob /\ loc = NoLoc
    /\ hist = [j \in JobIds |-> NoHist]
    /\ last = NoLast /\ trail = NoTrail /\ aggLog = << >> /\ crashes = 0
    /\ processor_instance = 0
    /\ loops = [l \in LoopIds |-> NoLoop]
    /\ limiter = NewLimiter /\ wall = 0 /\ req = NoRequest
    /\ token_result = NoTokenResult
    /\ token_expires_at = None
    /\ upstream \in [Years -> 0..MaxPerYear]
    /\ extra \in [Years -> ExtraKinds]
    /\ sched = NewSchedule
    /\ today = <<YearsParam + 1, 6, 15>>

PullNext ==
    \/ \E c \in CountyIds : CreateCounty(c)
    \/ \E c \in CountyIds : CreateJob(c, "incremental_pull")
    \/ Start
    \/ \E j \in JobIds : Poll(j)
    \/ Validate("ok")
    \/ SkipYear
    \/ BeginYear("ok")
    \/ FetchYear("ok")
    \/ \E e \in BOOLEAN, o \in RecordOutcomes : ProcessRecord(e, o)
    \/ EndYear
    \/ FinishInitial
    \/ FetchIncremental("ok")
    \/ \E o \in RecordOutcomes : ProcessIncrementalRecord(o)
    \/ FinishIncremental

PullSpec == PullInit /\ [][PullNext]_vars

----------------------------------------------------------------------------
(* The aggregator on its own: process_permit called on any permits, in any *)
(* order, for one county.                                                  *)

AggCounty == 1
AggToday == <<25, 6, 15>>
AggDates == {NoDate, <<3, 1, 1>>, <<3, 9, 1>>, <<12, 6, 15>>, <<24, 1, 1>>}
AggAddrs == {0} \cup Addrs
AggOwners == {NoOwner, [phone |-> TRUE, email |-> FALSE]}

AggInit ==
    /\ Fresh
    /\ upstream = [y \in Years |-> 0]
    /\ today = AggToday

\* one payload through the per-record body of the pull loop
Ingest(permit) ==
    LET e == RecordEffect(permits, props, leads, AggCounty, permit, today, "ok")
    IN  /\ permits' = e.permits
        /\ props' = e.props
        /\ leads' = e.leads
        /\ rows' = RowsAfter(rows, AggCounty, permit, e)
        /\ aggLog' = Append(aggLog, permit)
        /\ UNCHANGED << counties, jobs, nextJob, upstream, now, today, procVars,
                        hist, last, trail, crashes, auxVars >>

\* a payload not seen before
ProcessPermit(addr, date, owner, plain) ==
    /\ Len(aggLog) < MaxAggSteps
    /\ addr # 0 => plain
    /\ Ingest([id |-> Len(aggLog) + 1, addr |-> addr, date |-> date, owner |-> owner,
               plain |-> plain])

\* a payload fetched again, as a retried or overlapping pull does
IngestAgain(i) ==
    /\ Len(aggLog) < MaxAggSteps
    /\ i \in DOMAIN aggLog
    /\ Ingest(aggLog[i])

AggNext ==
    \/ \E addr \in AggAddrs, date \in AggDates, owner \in AggOwners, plain \in BOOLEAN :
           ProcessPermit(addr, date, owner, plain)
    \/ \E i \in 1..MaxAggSteps : IngestAgain(i)

AggSpec == AggInit /\ [][AggNext]_vars

\* process_permit over a sequence of permits, from record i on
RECURSIVE Replay(_, _, _, _)
Replay(seq, i, pr, ld) ==
    IF i > Len(seq) THEN [props |-> pr, leads |-> ld]
    ELSE LET r == process_permit(pr, ld, AggCounty, seq[i], today, "none")
         IN  Replay(seq, i + 1, r.props, r.leads)

----------------------------------------------------------------------------
(* AddressNormalizer.  A string is the sequence of its characters.         *)

LowerCase ==
    <<"a", "b", "c", "d", "e", "f", "g", "h", "i", "j", "k", "l", "m",
      "n", "o", "p", "q", "r", "s", "t", "u", "v", "w", "x", "y", "z">>
UpperCase ==
    <<"A", "B", "C", "D", "E", "F", "G", "H", "I", "J", "K", "L", "M",
      "N", "O", "P", "Q", "R", "S", "T", "U", "V", "W", "X", "Y", "Z">>
Digits == {"0", "1", "2", "3", "4", "5", "6", "7", "8", "9"}
Range(f) == {f[i] : i \in DOMAIN f}

\* \s and \w of the re module, over the characters of the addresses
IsSpace(ch) == ch \in {" ", "\t"}
IsWordChar(ch) == ch \in Range(LowerCase) \cup Range(UpperCase) \cup Digits \cup {"_"}

\* str.upper()
UpperChar(ch) ==
    IF ch \in Range(LowerCase)
    THEN UpperCase[CHOOSE i \in DOMAIN LowerCase : LowerCase[i] = ch]
    ELSE ch
Upper(str) == [i \in DOMAIN str |-> UpperChar(str[i])]

\* str.strip()
RECURSIVE LStrip(_)
LStrip(str) ==
    IF str # << >> /\ IsSpace(Head(str)) THEN LStrip(Tail(str)) ELSE str
RECURSIVE RStrip(_)
RStrip(str) ==
    IF str # << >> /\ IsSpace(str[Len(str)])
    THEN RStrip(SubSeq(str, 1, Len(str) - 1)) ELSE str
Strip(str) == RStrip(LStrip(str))

\* re.sub(r'\s+', ' ', s)
RECURSIVE CollapseSpaces(_)
CollapseSpaces(str) ==
    IF str = << >> THEN << >>
    ELSE IF IsSpace(Head(str))
    THEN <<" ">> \o CollapseSpaces(LStrip(str))
    ELSE <<Head(str)>> \o CollapseSpaces(Tail(str))

\* re.sub(r'[,.]', '', s)
RECURSIVE RemovePunctuation(_)
RemovePunctuation(str) ==
    IF str = << >> THEN << >>
    ELSE IF Head(str) \in {",", "."} THEN RemovePunctuation(Tail(str))
    ELSE <<Head(str)>> \o RemovePunctuation(Tail(str))

STREET_SUFFIXES ==
    { [abbrev |-> <<"S", "T">>,
        full |-> <<"S", "T", "R", "E", "E", "T">>],
      [abbrev |-> <<"A", "V", "E">>,
        full |-> <<"A", "V", "E", "N", "U", "E">>],
      [abbrev |-> <<"B", "L", "V", "D">>,
        full |-> <<"B", "O", "U", "L", "E", "V", "A", "R", "D">>],
      [abbrev |-> <<"R", "D">>,
        full |-> <<"R", "O", "A", "D">>],
      [abbrev |-> <<"D", "R">>,
        full |-> <<"D", "R", "I", "V", "E">>],
      [abbrev |-> <<"L", "N">>,
        full |-> <<"L", "A", "N", "E">>],
      [abbrev |-> <<"C", "T">>,
        full |-> <<"C", "O", "U", "R", "T">>],
      [abbrev |-> <<"C", "I", "R">>,
        full |-> <<"C", "I", "R", "C", "L", "E">>],
      [abbrev |-> <<"P", "L">>,
        full |-> <<"P", "L", "A", "C", "E">>],
      [abbrev |-> <<"T", "E", "R">>,
        full |-> <<"T", "E", "R", "R", "A", "C", "E">>],
      [abbrev |-> <<"W", "A", "Y">>,
        full |-> <<"W", "A", "Y">>],
      [abbrev |-> <<"P", "K", "W", "Y">>,
        full |-> <<"P", "A", "R", "K", "W", "A", "Y">>],
      [abbrev |-> <<"H", "W", "Y">>,
        full |-> <<"H", "I", "G", "H", "W", "A", "Y">>],
      [abbrev |-> <<"S", "Q">>,
        full |-> <<"S", "Q", "U", "A", "R", "E">>],
      [abbrev |-> <<"T", "R">>,
        full |-> <<"T", "R", "A", "I", "L">>],
      [abbrev |-> <<"T", "P", "K", "E">>,
        full |-> <<"T", "U", "R", "N", "P", "I", "K", "E">>],
      [abbrev |-> <<"L", "O", "O", "P">>,
        full |-> <<"L", "O", "O", "P">>],
      [abbrev |-> <<"P", "A", "T", "H">>,
        full |-> <<"P", "A", "T", "H">>],
      [abbrev |-> <<"A", "L", "Y">>,
        full |-> <<"A", "L", "L", "E", "Y">>],
      [abbrev |-> <<"X", "I", "N", "G">>,
        full |-> <<"C", "R", "O", "S", "S", "I", "N", "G">>],
      [abbrev |-> <<"P", "A", "S", "S">>,
        full |-> <<"P", "A", "S", "S">>],
      [abbrev |-> <<"R", "U", "N">>,
        full |-> <<"R", "U", "N">>],
      [abbrev |-> <<"R", "O", "W">>,
        full |-> <<"R", "O", "W">>] }

DIRECTIONALS ==
    { [abbrev |-> <<"N">>,
        full |-> <<"N", "O", "R", "T", "H">>],
      [abbrev |-> <<"S">>,
        full |-> <<"S", "O", "U", "T", "H">>],
      [abbrev |-> <<"E">>,
        full |-> <<"E", "A", "S", "T">>],
      [abbrev |-> <<"W">>,
        full |-> <<"W", "E", "S", "T">>],
      [abbrev |-> <<"N", "E">>,
        full |-> <<"N", "O", "R", "T", "H", "E", "A", "S", "T">>],
      [abbrev |-> <<"N", "W">>,
        full |-> <<"N", "O", "R", "T", "H", "W", "E", "S", "T">>],
      [abbrev |-> <<"S", "E">>,
        full |-> <<"S", "O", "U", "T", "H", "E", "A", "S", "T">>],
      [abbrev |-> <<"S", "W">>,
        full |-> <<"S", "O", "U", "T", "H", "W", "E", "S", "T">>] }

\* what the loop of re.sub(r'\b' + abbrev + r'\b', full, s) makes of one
\* maximal run of word characters: the run is replaced when it is an
\* abbreviation of the table (no full form is an abbreviation of either table
\* but of itself, so the order of the loop does not matter)
ExpandWord(word, table) ==
    IF \E e \in table : e.abbrev = word
    THEN (CHOOSE e \in table : e.abbrev = word).full
    ELSE word

\* the longest prefix of word characters
RECURSIVE WordPrefix(_)
WordPrefix(str) ==
    IF str # << >> /\ IsWordChar(Head(str))
    THEN <<Head(str)>> \o WordPrefix(Tail(str)) ELSE << >>

RECURSIVE ExpandAll(_, _)
ExpandAll(str, table) ==
    IF str = << >> THEN << >>
    ELSE IF IsWordChar(Head(str))
    THEN LET word == WordPrefix(str)
         IN  ExpandWord(word, table)
             \o ExpandAll(SubSeq(str, Len(word) + 1, Len(str)), table)
    ELSE <<Head(str)>> \o ExpandAll(Tail(str), table)

\* variant: the suffix abbreviations are left as they are
normalize_without_suffixes(address) ==
    IF address = << >> THEN << >>
    ELSE Strip(CollapseSpaces(RemovePunctuation(
             ExpandAll(CollapseSpaces(Strip(Upper(address))), DIRECTIONALS))))

normalize(address) ==
    IF address = << >> THEN << >>
    ELSE Strip(CollapseSpaces(RemovePunctuation(
             ExpandAll(ExpandAll(CollapseSpaces(Strip(Upper(address))),
                                 STREET_SUFFIXES),
                       DIRECTIONALS))))

\* raw addresses as permits carry them: one place written three ways, and
\* two other places
\* "123 Main St, Anytown, FL 12345"
Raw1 ==
    <<"1", "2", "3", " ", "M", "a", "i", "n", " ", "S", "t", ",", " ", "A", "n",
      "y", "t", "o", "w", "n", ",", " ", "F", "L", " ", "1", "2", "3", "4",
      "5">>
\* "123 MAIN STREET ANYTOWN FL 12345"
Raw2 ==
    <<"1", "2", "3", " ", "M", "A", "I", "N", " ", "S", "T", "R", "E", "E", "T",
      " ", "A", "N", "Y", "T", "O", "W", "N", " ", "F", "L", " ", "1", "2",
      "3", "4", "5">>
\* " 123  main st. Anytown FL 12345"
Raw3 ==
    <<" ", "1", "2", "3", " ", " ", "m", "a", "i", "n", " ", "s", "t", ".", " ",
      "A", "n", "y", "t", "o", "w", "n", " ", "F", "L", " ", "1", "2", "3",
      "4", "5">>
\* "125 Main St, Anytown, FL 12345"
Raw4 ==
    <<"1", "2", "5", " ", "M", "a", "i", "n", " ", "S", "t", ",", " ", "A", "n",
      "y", "t", "o", "w", "n", ",", " ", "F", "L", " ", "1", "2", "3", "4",
      "5">>
\* "123 Main Ave, Anytown, FL 12345"
Raw5 ==
    <<"1", "2", "3", " ", "M", "a", "i", "n", " ", "A", "v", "e", ",", " ", "A",
      "n", "y", "t", "o", "w", "n", ",", " ", "F", "L", " ", "1", "2", "3",
      "4", "5">>
RawAddresses == {Raw1, Raw2, Raw3, Raw4, Raw5}

\* "123 MAIN STREET ANYTOWN FL 12345"
Normalized1 ==
    <<"1", "2", "3", " ", "M", "A", "I", "N", " ", "S", "T", "R", "E", "E", "T",
      " ", "A", "N", "Y", "T", "O", "W", "N", " ", "F", "L", " ", "1", "2",
      "3", "4", "5">>

\* the key a normalized address is stored under: its place in an enumeration
\* of the normalized addresses (one number per string)
NormalizedAddresses == {normalize(a) : a \in RawAddresses}
AddressOrder ==
    CHOOSE f \in [1..Cardinality(NormalizedAddresses) -> NormalizedAddresses] :
        \A n \in NormalizedAddresses : \E i \in DOMAIN f : f[i] = n
AddressKey(n) == CHOOSE i \in DOMAIN AddressOrder : AddressOrder[i] = n

\* parse_address(raw).normalized_address, for every raw address
normalized_address == [a \in RawAddresses |-> normalize(a)]
StoredKey == [a \in RawAddresses |-> AddressKey(normalized_address[a])]

----------------------------------------------------------------------------
(* The aggregator over raw addresses and over the years: process_permit    *)
(* called on permits that carry a raw address, on a day that moves on      *)
(* between calls.  A logged permit keeps its raw address and the day it    *)
(* was processed on.                                                       *)

LaterToday == <<30, 6, 15>>
LeadDates == {<<10, 6, 15>>, <<10, 6, 16>>, <<15, 1, 1>>, <<24, 1, 1>>, <<25, 1, 1>>}

LeadInit == AggInit

\* parsed_address = AddressNormalizer.parse_address(raw_address), then the
\* per-record body on the permit
ProcessRawPermit(raw, date) ==
    /\ Len(aggLog) < MaxAggSteps
    /\ Ingest([id |-> Len(aggLog) + 1, addr |-> StoredKey[raw],
               date |-> date, owner |-> NoOwner, plain |-> TRUE,
               raw |-> raw, processed_on |-> today])

\* date.today() is a later day from here on
NewDay ==
    /\ today = AggToday
    /\ today' = LaterToday
    /\ UNCHANGED << counties, jobs, nextJob, storeVars, upstream, now, procVars,
                    hist, last, trail, aggLog, crashes, auxVars >>

LeadNext ==
    \/ \E raw \in RawAddresses, date \in LeadDates : ProcessRawPermit(raw, date)
    \/ NewDay

LeadSpec == LeadInit /\ [][LeadNext]_vars

----------------------------------------------------------------------------
(* The singleton: start_job_processor and stop_job_processor called in any  *)
(* order, and the start() task of every JobProcessor they construct.  A     *)
(* task is at "created" (scheduled by create_task, not run yet), "recover", *)
(* "poll", "job" (inside _poll_and_process with a job claimed), "sleep" or  *)
(* "exited".                                                                *)

\* start_job_processor: returns when there is an instance, else constructs one
\* (is_running False) and schedules its start()
start_job_processor ==
    /\ IF processor_instance # 0
       THEN UNCHANGED loopVars
       ELSE /\ \E l \in LoopIds : loops[l].at = "none"
            /\ LET l == CHOOSE k \in LoopIds :
                            /\ loops[k].at = "none"
                            /\ \A m \in LoopIds : loops[m].at = "none" => k <= m
               IN  /\ loops' = [loops EXCEPT ![l] = [is_running |-> FALSE, at |-> "created"]]
                   /\ processor_instance' = l
    /\ UNCHANGED << coreVars, clientVars, feedVars, schedVars >>

\* stop_job_processor: instance.stop() sets is_running False; the instance is
\* forgotten.  The task is neither awaited nor cancelled.
stop_job_processor ==
    /\ processor_instance # 0
    /\ loops' = [loops EXCEPT ![processor_instance].is_running = FALSE]
    /\ processor_instance' = 0
    /\ UNCHANGED << coreVars, clientVars, feedVars, schedVars >>

\* while self.is_running
LoopCondition(l) == IF loops[l].is_running THEN "poll" ELSE "exited"

\* start(): the task runs its first statements up to the await of the recovery
LoopBegin(l) ==
    /\ loops[l].at = "created"
    /\ loops' = [loops EXCEPT ![l] = [is_running |-> TRUE, at |-> "recover"]]
    /\ UNCHANGED << coreVars, processor_instance, clientVars, feedVars, schedVars >>

\* _recover_stale_jobs returns; the loop condition is read
LoopRecovered(l) ==
    /\ loops[l].at = "recover"
    /\ loops' = [loops EXCEPT ![l].at = LoopCondition(l)]
    /\ UNCHANGED << coreVars, processor_instance, clientVars, feedVars, schedVars >>

\* _poll_and_process: no pending row (return) or a row is claimed
LoopPoll(l, claimed) ==
    /\ loops[l].at = "poll"
    /\ loops' = [loops EXCEPT ![l].at = IF claimed THEN "job" ELSE "sleep"]
    /\ UNCHANGED << coreVars, processor_instance, clientVars, feedVars, schedVars >>

\* the job's outcome is written, _poll_and_process returns
LoopJobDone(l) ==
    /\ loops[l].at = "job"
    /\ loops' = [loops EXCEPT ![l].at = "sleep"]
    /\ UNCHANGED << coreVars, processor_instance, clientVars, feedVars, schedVars >>

\* asyncio.sleep(POLL_INTERVAL) returns; the loop condition is read
LoopWake(l) ==
    /\ loops[l].at = "sleep"
    /\ loops' = [loops EXCEPT ![l].at = LoopCondition(l)]
    /\ UNCHANGED << coreVars, processor_instance, clientVars, feedVars, schedVars >>

LoopInit ==
    /\ Fresh
    /\ upstream = [y \in Years |-> 0]
    /\ today = <<YearsParam + 1, 6, 15>>

LoopNext ==
    \/ start_job_processor
    \/ stop_job_processor
    \/ \E l \in LoopIds : LoopBegin(l)
    \/ \E l \in LoopIds : LoopRecovered(l)
    \/ \E l \in LoopIds, claimed \in BOOLEAN : LoopPoll(l, claimed)
    \/ \E l \in LoopIds : LoopJobDone(l)
    \/ \E l \in LoopIds : LoopWake(l)

LoopSpec == LoopInit /\ [][LoopNext]_vars

----------------------------------------------------------------------------
(* AccelaClient and AccelaRateLimiter, under an incremental pull that was   *)
(* claimed: the token check of the job, then the _make_request calls of     *)
(* get_permits, each answered by the server with a status and any subset of *)
(* the rate-limit headers.  Time is in whole seconds; a sleep that ends     *)
(* inside a second may be observed in that second or in the next.           *)

\* what the token endpoint does when ensure_valid_token is called: the token
\* is not expired ("fresh"), the refresh succeeds, the endpoint answers with an
\* error status, the request times out or cannot connect, or there is no
\* refresh token to send
RefreshResults == {"fresh", "refreshed", "http_400", "http_401", "http_500",
                   "timeout", "connect_error", "no_refresh_token"}
RefreshStatusErrors == {"http_400", "http_401", "http_500"}

\* ensure_valid_token: success, or the failure and whether it needs_reauth
ensure_valid_token(r) ==
    IF r \in {"fresh", "refreshed"}
    THEN [cause |-> r, success |-> TRUE, needs_reauth |-> FALSE]
    ELSE IF r \in RefreshStatusErrors
    THEN \* except httpx.HTTPStatusError
         [cause |-> r, success |-> FALSE, needs_reauth |-> r \in {"http_400", "http_401"}]
    ELSE \* except Exception
         [cause |-> r, success |-> FALSE, needs_reauth |-> TRUE]

\* the headers of a response; None: the header is not there.  Limits are
\* positive.
LimitHeaders == {None, 0, 10, 20}
RemainingHeaders == {None, 0, 1, 2}
ResetHeaders == {None, Unparsable, 3}
RetryAfterHeaders == {None, 1}
Headers == [limit : LimitHeaders, remaining : RemainingHeaders,
            reset : ResetHeaders, retry_after : RetryAfterHeaders]

\* update_from_headers
\* int(text) succeeds
Parses(v) == v # None /\ v # Unparsable

\* the fields update_from_headers assigns
update_from_headers(l, h) ==
    [l EXCEPT !.limit = IF Parses(h.limit) THEN h.limit ELSE @,
              !.remaining = IF Parses(h.remaining) THEN h.remaining ELSE @,
              !.reset = IF Parses(h.reset) THEN h.reset ELSE @]

\* any([limit_str, remaining_str, reset_str]): the debug line is formatted,
\* and datetime.utcfromtimestamp(self.reset) raises TypeError on None
update_from_headers_raises(l, h) ==
    /\ h.limit # None \/ h.remaining # None \/ h.reset # None
    /\ update_from_headers(l, h).reset = None

\* pct_remaining = self.remaining / self.limit raises ZeroDivisionError
should_pause_raises(l) == l.limit # None /\ l.remaining # None /\ l.limit = 0

\* variant: pct_remaining <= threshold
AtOrBelowThreshold(remaining, limit) ==
    remaining * 100 <= accela_rate_limit_threshold * limit

\* pct_remaining < self.threshold, with pct_remaining = remaining / limit
BelowThreshold(remaining, limit) ==
    remaining * 100 < accela_rate_limit_threshold * limit

\* should_pause
should_pause(l) ==
    IF l.limit = None \/ l.remaining = None THEN FALSE
    ELSE l.limit # 0 /\ BelowThreshold(l.remaining, l.limit)

SecondsUntil(reset, t) == IF reset > t THEN reset - t ELSE 0

\* get_delay_until_safe: the seconds the sleep may be seen to take
get_delay_until_safe(l, t) ==
    IF l.limit = None \/ l.remaining = None \/ l.reset = None
    THEN {0, 1}                                  \* fallback_delay_pagination
    ELSE LET seconds_until_reset == SecondsUntil(l.reset, t)
             safe_remaining == (l.remaining * 8) \div 10
         IN  IF l.remaining = 0
             THEN {seconds_until_reset, seconds_until_reset + 1}
             ELSE IF safe_remaining > 0 /\ seconds_until_reset > 0
             THEN {seconds_until_reset \div safe_remaining,
                   seconds_until_reset \div safe_remaining + 1,
                   seconds_until_reset \div safe_remaining + 2}
             ELSE {0, 1}

Pow2(n) == IF n <= 0 THEN 1 ELSE IF n >= 6 THEN 64 ELSE
           (IF n = 1 THEN 2 ELSE IF n = 2 THEN 4 ELSE IF n = 3 THEN 8 ELSE IF n = 4 THEN 16 ELSE 32)

\* backoff = min(2 ** self.total_429_count, 60)
Backoff(n) == IF Pow2(n) < 60 THEN Pow2(n) ELSE 60

\* variant: the reset time is looked at before Retry-After
handle_429_reset_first(l, h, t) ==
    IF l.reset # None /\ l.reset # 0
    THEN LET u == SecondsUntil(l.reset, t) IN {u, u + 1, u + 2}
    ELSE IF h.retry_after # None
    THEN {h.retry_after, h.retry_after + 1}
    ELSE Backoff(l.total_429_count) ..
             (Backoff(l.total_429_count) + Backoff(l.total_429_count) \div 2)

\* handle_429 after its update_from_headers: the seconds its sleep may take
handle_429_delay(l, h, t) ==
    IF h.retry_after # None
    THEN {h.retry_after, h.retry_after + 1}
    ELSE IF l.reset # None /\ l.reset # 0
    THEN LET u == SecondsUntil(l.reset, t) IN {u, u + 1, u + 2}
    ELSE Backoff(l.total_429_count) ..
             (Backoff(l.total_429_count) + Backoff(l.total_429_count) \div 2)

\* the job of the client: an incremental pull that _poll_and_process claimed
\* _is_token_expired: no token or no expiry, an expiry that does not parse,
\* or now >= expires_at - timedelta(minutes=1)
ExpiryMarginSeconds == 60
is_token_expired(expires_at, t) ==
    \/ expires_at = None
    \/ expires_at = Unparsable
    \/ t >= expires_at - ExpiryMarginSeconds

\* refresh_access_token: expires_in = result.get("expires_in", 3600)
DefaultExpiresIn == 3600

\* what _is_token_expired and refresh_access_token can make of the token at
\* time t: answer "fresh" when it is not expired (nothing is refreshed), any
\* of the other answers when it is
RefreshAnswers(expires_at, t) ==
    IF is_token_expired(expires_at, t) THEN RefreshResults \ {"fresh"} ELSE {"fresh"}
ExpiryAfter(r, expires_at, t) ==
    IF r = "refreshed" THEN t + DefaultExpiresIn ELSE expires_at

\* the expiry the client is constructed with: none, unparsable, two seconds
\* more than the margin away, or an hour away
TokenExpiries == {None, Unparsable, ExpiryMarginSeconds + 2, DefaultExpiresIn}

ClientJob == 1
ClientCounty == 1

ClientInit ==
    /\ counties = [c \in CountyIds |-> IF c = ClientCounty THEN "connected" ELSE "none"]
    /\ jobs = [j \in JobIds |->
                 IF j = ClientJob
                 THEN [NewJob(ClientCounty, "incremental_pull", 0) EXCEPT !.status = "running"]
                 ELSE NoJob]
    /\ nextJob = 1
    /\ permits = {} /\ props = << >> /\ leads = << >> /\ rows = EmptyRows
    /\ upstream = [y \in Years |-> 0]
    /\ now = 0
    /\ today = <<YearsParam + 1, 6, 15>>
    /\ pc = "validate"
    /\ cur = ClientJob
    /\ snap = NewJob(ClientCounty, "incremental_pull", 0)
    /\ loc = NoLoc
    /\ hist = [j \in JobIds |-> IF j = ClientJob THEN [NoHist EXCEPT !.attempts = 1] ELSE NoHist]
    /\ last = NoLast
    /\ trail = NoTrail
    /\ aggLog = << >>
    /\ crashes = 0
    /\ processor_instance = 0
    /\ loops = [l \in LoopIds |-> NoLoop]
    /\ limiter = NewLimiter
    /\ wall = 0
    /\ req = NoRequest
    /\ token_result = NoTokenResult
    /\ token_expires_at \in TokenExpiries
    /\ extra = NoExtra
    /\ sched = NewSchedule

ClientFrame ==
    UNCHANGED << nextJob, storeVars, upstream, now, today, aggLog, crashes, loopVars,
                 feedVars, schedVars >>

\* the exception leaves _make_request, get_permits and the job
RequestRaises(error, cause) ==
    /\ req' = [req EXCEPT !.at = "raised", !.error = error]
    /\ RaiseGeneric(jobs, cause)
    /\ UNCHANGED counties

\* _process_incremental_pull: token_result = await ensure_valid_token(), the
\* county write and the raise that follow a failure
TokenCheck(r) ==
    /\ pc = "validate"
    /\ r \in RefreshAnswers(token_expires_at, wall)
    /\ token_expires_at' = ExpiryAfter(r, token_expires_at, wall)
    /\ LET res == ensure_valid_token(r)
       IN  /\ token_result' = res
           /\ IF res.success
              THEN /\ pc' = "inc_fetch"
                   /\ last' = NoLast
                   /\ UNCHANGED << counties, jobs, cur, snap, loc, hist, trail >>
              ELSE IF res.needs_reauth
              THEN /\ RaiseTokenExpired("token_check")
                   /\ UNCHANGED hist
              ELSE /\ RaiseGeneric(jobs, "transient")
                   /\ UNCHANGED counties
    /\ UNCHANGED << limiter, wall, req >>
    /\ ClientFrame

\* _make_request up to wait_if_needed: await self._ensure_valid_token()
BeginRequest(r) ==
    /\ pc = "inc_fetch"
    /\ req.at = "idle"
    /\ req.n < MaxRequests
    /\ r \in RefreshAnswers(token_expires_at, wall)
    /\ token_expires_at' = ExpiryAfter(r, token_expires_at, wall)
    /\ IF r \in {"fresh", "refreshed"}
       THEN /\ req' = [req EXCEPT !.at = "wait", !.attempt = 0, !.n = req.n + 1,
                                  !.slept = FALSE, !.timeouts = 0]
            /\ last' = NoLast
            /\ UNCHANGED << counties, jobs, procVars, hist, trail >>
       ELSE RequestRaises("refresh", "token_rejected")
    /\ UNCHANGED << limiter, wall, token_result >>
    /\ ClientFrame

\* wait_if_needed
wait_if_needed(d) ==
    /\ pc = "inc_fetch"
    /\ req.at = "wait"
    /\ IF should_pause_raises(limiter)
       THEN /\ d = 0
            /\ RequestRaises("zero_division", "transient")
            /\ UNCHANGED << limiter, wall >>
       ELSE /\ IF should_pause(limiter)
               THEN /\ d \in get_delay_until_safe(limiter, wall)
                    /\ wall + d <= MaxWall
                    /\ limiter' = [limiter EXCEPT !.total_pauses = limiter.total_pauses + 1]
                    /\ wall' = wall + d
                    /\ req' = [req EXCEPT !.at = "send", !.slept = TRUE]
               ELSE /\ d = 0
                    /\ req' = [req EXCEPT !.at = "send"]
                    /\ UNCHANGED << limiter, wall >>
            /\ last' = NoLast
            /\ UNCHANGED << counties, jobs, procVars, hist, trail >>
    /\ UNCHANGED << token_result, token_expires_at >>
    /\ ClientFrame

\* client.request(...) is sent and answered 2xx: the headers are taken, the
\* JSON is returned
Respond200(h) ==
    /\ pc = "inc_fetch"
    /\ req.at = "send"
    /\ limiter' = update_from_headers(limiter, h)
    /\ IF update_from_headers_raises(limiter, h)
       THEN RequestRaises("type_error", "transient")
       ELSE /\ req' = [req EXCEPT !.at = "idle"]
            /\ last' = NoLast
            /\ UNCHANGED << counties, jobs, procVars, hist, trail >>
    /\ UNCHANGED << wall, token_result, token_expires_at >>
    /\ ClientFrame

\* a loop that would allow one attempt more than max_retries
FinalAttempt_one_more(attempt) == attempt = accela_max_retries

\* the final attempt of "for attempt in range(max_retries)"
FinalAttempt(attempt) == attempt = accela_max_retries - 1

\* the request is sent and answered 429: handle_429 and the next attempt, or
\* on the final attempt raise_for_status
Respond429(h, d) ==
    /\ pc = "inc_fetch"
    /\ req.at = "send"
    /\ LET l1 == update_from_headers(limiter, h)
           l2 == [l1 EXCEPT !.total_429_count = l1.total_429_count + 1]
       IN  IF update_from_headers_raises(limiter, h)
           THEN /\ d = 0
                /\ limiter' = l1
                /\ RequestRaises("type_error", "transient")
                /\ UNCHANGED wall
           ELSE IF ~FinalAttempt(req.attempt)
           THEN /\ d \in handle_429_delay(l2, h, wall)
                /\ wall + d <= MaxWall
                /\ limiter' = l2
                /\ wall' = wall + d
                /\ req' = [req EXCEPT !.attempt = req.attempt + 1]
                /\ last' = NoLast
                /\ UNCHANGED << counties, jobs, procVars, hist, trail >>
           ELSE /\ d = 0
                /\ limiter' = l1
                /\ RequestRaises("http_429", "rate_limited")
                /\ UNCHANGED wall
    /\ UNCHANGED << token_result, token_expires_at >>
    /\ ClientFrame

\* the request is sent and answered with another error status:
\* raise_for_status, re-raised at once
RespondError(h) ==
    /\ pc = "inc_fetch"
    /\ req.at = "send"
    /\ limiter' = update_from_headers(limiter, h)
    /\ IF update_from_headers_raises(limiter, h)
       THEN RequestRaises("type_error", "transient")
       ELSE RequestRaises("http_500", "transient")
    /\ UNCHANGED << wall, token_result, token_expires_at >>
    /\ ClientFrame

\* the request is sent and times out: one second of sleep and the next
\* attempt, or on the final attempt httpx.HTTPError
RespondTimeout ==
    /\ pc = "inc_fetch"
    /\ req.at = "send"
    /\ IF ~FinalAttempt(req.attempt)
       THEN /\ wall + 1 <= MaxWall
            /\ wall' = wall + 1
            /\ req' = [req EXCEPT !.attempt = req.attempt + 1,
                                  !.timeouts = req.timeouts + 1]
            /\ last' = NoLast
            /\ UNCHANGED << counties, jobs, procVars, hist, trail >>
       ELSE /\ req' = [req EXCEPT !.at = "raised", !.error = "timeout",
                                  !.timeouts = req.timeouts + 1]
            /\ RaiseGeneric(jobs, "transient")
            /\ UNCHANGED << counties, wall >>
    /\ UNCHANGED << limiter, token_result, token_expires_at >>
    /\ ClientFrame

\* time passes between two calls of the client
WallTick ==
    /\ pc = "inc_fetch"
    /\ req.at = "idle"
    /\ wall < MaxWall
    /\ wall' = wall + 1
    /\ last' = NoLast
    /\ UNCHANGED << counties, jobs, procVars, hist, trail, limiter, req, token_result,
                    token_expires_at >>
    /\ ClientFrame

ClientNext ==
    \/ \E r \in RefreshResults : TokenCheck(r)
    \/ \E r \in RefreshResults : BeginRequest(r)
    \/ \E d \in 0..MaxWall : wait_if_needed(d)
    \/ \E h \in Headers : Respond200(h)
    \/ \E h \in Headers, d \in 0..MaxWall : Respond429(h, d)
    \/ \E h \in Headers : RespondError(h)
    \/ RespondTimeout
    \/ WallTick

ClientSpec == ClientInit /\ [][ClientNext]_vars

----------------------------------------------------------------------------
(* What one attempt that meets no error writes, from record i of year y on *)

EmptyRun ==
    [ permits |-> {}, props |-> << >>, leads |-> << >>, pulled |-> 0, saved |-> 0,
      created |-> 0, updated |-> 0, leads_created |-> 0 ]

RECURSIVE UninterruptedRun(_, _, _, _, _)
UninterruptedRun(up, county, acc, y, i) ==
    IF y > YearsParam + 1 THEN acc
    ELSE IF i > up[y] THEN UninterruptedRun(up, county, acc, y + 1, 1)
    ELSE LET e == RecordEffect(acc.permits, acc.props, acc.leads, county,
                               Record(y, i), today, "ok")
         IN  UninterruptedRun(up, county,
                 [ permits |-> e.permits, props |-> e.props, leads |-> e.leads,
                   pulled |-> acc.pulled + 1,
                   saved |-> acc.saved + e.saved,
                   created |-> acc.created + e.created,
                   updated |-> acc.updated + e.updated,
                   leads_created |-> acc.leads_created + e.leads_created ],
                 y, i + 1)

----------------------------------------------------------------------------
(* Properties of the job processor *)

\* the attempt of job j ended in this step through `except Exception`
GenericEnded(j) ==
    last'.job = j /\ last'.cause \in {"transient", "token_rejected", "cancelled"}

\* C1: when the cancellation check finds the running job cancelled or its row
\* deleted, the attempt ends without the generic retry path: the row's status
\* is not written 'pending' or 'failed' and its retry_count is not incremented.
C1_CancelBypassesRetry ==
    [][\A j \in JobIds :
          last'.job = j /\ last'.cause = "cancelled"
              /\ jobs[j].status \in {"cancelled", "none"}
          => /\ jobs'[j].status = jobs[j].status
             /\ jobs'[j].retry_count = jobs[j].retry_count]_vars

\* C2: terminal statuses are absorbing: a row whose status is 'completed',
\* 'failed' or 'cancelled' keeps that status until the row is deleted; a job
\* cancelled while its attempt is in flight is never written 'completed' or
\* 'pending' afterwards.
C2_TerminalAbsorbing ==
    [][\A j \in JobIds :
          jobs[j].status \in Terminal
          => jobs'[j].status \in {jobs[j].status, "none"}]_vars

\* C3: in every reachable state a county has at most one job whose status is
\* 'pending' or 'running', whichever paths created the jobs.
C3_OneActiveJobPerCounty ==
    \A c \in CountyIds : Cardinality(ActiveJobs(jobs, c)) <= 1

\* C4: retry bound.  An attempt that fails with a non-token error returns the
\* job to 'pending' with retry_count + 1 when retry_count < max_retries, and
\* writes 'failed' with the error set when retry_count = max_retries; so
\* retry_count never exceeds max_retries, and a job whose every attempt failed
\* that way is 'failed' exactly after max_retries + 1 attempts.
C4_RetryBound ==
    /\ [](\A j \in JobIds :
            jobs[j].status # "none"
            => /\ jobs[j].retry_count <= DefaultMaxRetries
               /\ jobs[j].retry_count = Min2(hist[j].failures, DefaultMaxRetries)
               /\ (hist[j].failures = hist[j].attempts
                   => /\ hist[j].attempts <= DefaultMaxRetries + 1
                      /\ (jobs[j].status = "failed" /\ jobs[j].error = "failed")
                         <=> hist[j].attempts = DefaultMaxRetries + 1))
    /\ [][\A j \in JobIds :
            GenericEnded(j) /\ jobs[j].status # "none"
            => IF jobs[j].retry_count < DefaultMaxRetries
               THEN /\ jobs'[j].status = "pending"
                    /\ jobs'[j].retry_count = jobs[j].retry_count + 1
               ELSE /\ jobs'[j].status = "failed"
                    /\ jobs'[j].error = "failed"
                    /\ jobs'[j].retry_count = jobs[j].retry_count]_vars

\* C4 witness: a job whose four attempts all failed is 'failed' with retry_count 3
C4_Witness ==
    \E j \in JobIds :
        /\ jobs[j].status = "failed" /\ jobs[j].error = "failed"
        /\ jobs[j].retry_count = DefaultMaxRetries
        /\ hist[j].attempts = DefaultMaxRetries + 1
        /\ hist[j].failures = DefaultMaxRetries + 1

\* C5: a rejected token refresh - at job start, at a year boundary or inside a
\* record request - makes the job 'failed' in that same attempt with retry_count
\* unchanged; the job does not go back to 'pending'.
C5_TokenExpiryIsTerminal ==
    [][\A j \in JobIds :
          last'.job = j /\ last'.cause \in {"token_check", "token_expired", "token_rejected"}
              /\ jobs[j].status # "none"
          => /\ jobs'[j].status = "failed"
             /\ jobs'[j].retry_count = jobs[j].retry_count]_vars

\* the year-boundary token check of the attempt in flight happens in this step
TokenCheckAtYear ==
    /\ pc = "year"
    /\ \/ pc' = "fetch"
       \/ pc' = "idle" /\ last'.cause \in {"token_check", "transient"}

\* C6: in an initial_pull attempt, a year that was 'completed' in the stored
\* years_status when the attempt started gets no permit fetch and no token
\* check and its entry stays 'completed'; the other years are fetched in
\* ascending order.
C6_ResumeSkipsCompleted ==
    /\ [](pc \notin {"down", "idle"} /\ snap.job_type = "initial_pull"
          => /\ \A y \in Years :
                   snap.years_status[y] = "completed"
                   => /\ y \notin trail.checked
                      /\ \A i \in DOMAIN trail.fetched : trail.fetched[i] # y
                      /\ (jobs[cur].status # "none"
                          => jobs[cur].years_status[y] = "completed")
                      /\ (pc \in {"fetch", "records", "endyear"} => loc.year # y)
             /\ \A i, k \in DOMAIN trail.fetched :
                   i < k => trail.fetched[i] < trail.fetched[k])
    /\ [][TokenCheckAtYear => snap.years_status[loc.year] # "completed"]_vars

\* C6 witness: a resumed attempt that started with year 1 completed has
\* fetched years 2 and 3
C6_Witness ==
    /\ pc = "endyear"
    /\ snap.years_status[1] = "completed"
    /\ trail.fetched = <<2, 3>>
    /\ trail.checked = {2, 3}

\* C7: an initial_pull that completed some years, failed and was retried to
\* completion ends with the counters an uninterrupted run over the same
\* upstream data writes.
C7_ResumeCountersEqual ==
    \A j \in JobIds :
        /\ jobs[j].status = "completed"
        /\ jobs[j].job_type = "initial_pull"
        /\ ~hist[j].record_failures
        => LET u == UninterruptedRun(upstream, jobs[j].county, EmptyRun, 1, 1)
           IN  /\ jobs[j].permits_pulled = u.pulled
               /\ jobs[j].permits_saved = u.saved
               /\ jobs[j].properties_created = u.created
               /\ jobs[j].properties_updated = u.updated
               /\ jobs[j].leads_created = u.leads_created

\* C8: once a year's entry in a job's stored years_status is 'completed', it
\* is 'completed' after every later write to that job.
C8_CompletedYearsMonotonic ==
    [][\A j \in JobIds : \A y \in Years :
          jobs[j].years_status[y] = "completed" /\ jobs'[j].status # "none"
          => jobs'[j].years_status[y] = "completed"]_vars

\* C8 witness: a retried job, year 1 completed, at work on year 2
C8_Witness ==
    \E j \in JobIds :
        /\ jobs[j].status = "running"
        /\ jobs[j].retry_count >= 1
        /\ jobs[j].years_status[1] = "completed"
        /\ jobs[j].years_status[2] = "in_progress"

\* C9: crash recovery at start-up sets to 'pending' exactly the rows that are
\* 'running' with updated_at more than 10 minutes back, and leaves their
\* years_status, per_year_permits and retry_count alone; every other row is
\* not modified.
C9_RecoveryFrame ==
    [][pc = "down" /\ pc' = "idle"
       => \A j \in JobIds :
             IF jobs[j].status = "running" /\ now - jobs[j].updated_at > StaleMinutes
             THEN /\ jobs'[j].status = "pending"
                  /\ jobs'[j].years_status = jobs[j].years_status
                  /\ jobs'[j].per_year_permits = jobs[j].per_year_permits
                  /\ jobs'[j].retry_count = jobs[j].retry_count
             ELSE jobs'[j] = jobs[j]]_vars

\* C9 witness: a recovered row that had completed a year before the crash
C9_Witness ==
    \E j \in JobIds :
        /\ jobs[j].status = "pending"
        /\ jobs[j].error = "recovered"
        /\ jobs[j].years_status[1] = "completed"
        /\ pc = "idle"

----------------------------------------------------------------------------
(* Properties of the aggregator *)

\* the dated permits processed so far that belong to property k
PermitsAt(k) ==
    {i \in DOMAIN aggLog : aggLog[i].date # NoDate /\ PropertyKey(AggCounty, aggLog[i]) = k}

\* the columns of a property row that are copied or computed from one permit
Denormalized(p) ==
    [ most_recent_hvac_permit_id |-> p.most_recent_hvac_permit_id,
      most_recent_hvac_date |-> p.most_recent_hvac_date,
      hvac_age_years |-> p.hvac_age_years,
      lead_score |-> p.lead_score,
      lead_tier |-> p.lead_tier,
      is_qualified |-> p.is_qualified,
      owner |-> p.owner,
      contact_completeness |-> p.contact_completeness ]

\* C10: after any sequence of process_permit calls, a property's
\* most_recent_hvac_date is the latest opened_date among the permits at its
\* address and its denormalized fields are those of a permit with that date;
\* two permits with different dates give the same property in either order.
C10_MostRecentWins ==
    /\ \A k \in DOMAIN props :
          /\ PermitsAt(k) # {}
          /\ \A i \in PermitsAt(k) :
                ~DateLT(props[k].most_recent_hvac_date, aggLog[i].date)
          /\ \E i \in PermitsAt(k) :
                /\ aggLog[i].date = props[k].most_recent_hvac_date
                /\ Denormalized(props[k]) = DerivedFields(aggLog[i], today)
    /\ \A k \in DOMAIN props :
          \A i, j \in PermitsAt(k) :
             i < j /\ aggLog[i].date # aggLog[j].date /\ PermitsAt(k) = {i, j}
             => Replay(<<aggLog[j], aggLog[i]>>, 1, << >>, << >>).props[k] = props[k]

\* C10 witness: the later-dated permit was processed first, the older one after
\* it, and the property still shows the later one
C10_Witness ==
    \E k \in DOMAIN props : \E i, j \in PermitsAt(k) :
        /\ i < j
        /\ DateLT(aggLog[j].date, aggLog[i].date)
        /\ props[k].most_recent_hvac_permit_id = aggLog[i].id
        /\ props[k].total_hvac_permits >= 2

\* C11: ingesting the same payload twice leaves exactly one permit row for
\* (county, accela_record_id), exactly one property for its address and exactly
\* one lead for that property; no table ever holds two rows under one natural
\* key.
C11_IdempotentIngestion ==
    /\ \A k \in DOMAIN rows.permits : rows.permits[k] = 1
    /\ \A k \in DOMAIN rows.props : rows.props[k] = 1
    /\ \A k \in DOMAIN rows.leads : rows.leads[k] = 1
    /\ \A i, j \in DOMAIN aggLog :
          i < j /\ aggLog[i] = aggLog[j]
          => LET k == PropertyKey(AggCounty, aggLog[i])
             IN  /\ <<AggCounty, aggLog[i].id>> \in permits
                 /\ RowCount(rows.permits, <<AggCounty, aggLog[i].id>>) = 1
                 /\ aggLog[i].date # NoDate
                    => /\ k \in DOMAIN props /\ RowCount(rows.props, k) = 1
                       /\ k \in DOMAIN leads /\ RowCount(rows.leads, k) = 1

\* C11 witness: a dated permit without address, whose "PERMIT-<id>" text the
\* normalizer changes, went through twice (the second property write is an
\* upsert that meets the stored row)
C11_Witness ==
    \E i, j \in DOMAIN aggLog :
        /\ i < j /\ aggLog[i] = aggLog[j]
        /\ aggLog[i].addr = 0 /\ ~aggLog[i].plain /\ aggLog[i].date # NoDate
        /\ PropertyKey(AggCounty, aggLog[i]) \in DOMAIN props

\* C12: between any two process_permit calls, calls that raised part-way
\* included, no two properties share (county_id, normalized_address) and every
\* property has exactly one lead.
C12_EveryPropertyHasOneLead ==
    /\ \A k \in DOMAIN rows.props : rows.props[k] = 1
    /\ \A k \in DOMAIN props :
          k \in DOMAIN leads /\ RowCount(rows.leads, k) = 1

RunningJobs(js) == {j \in JobIds : js[j].status = "running"}

\* C14: one polling loop executes one job at a time: a job is claimed (marked
\* 'running', an attempt started) only when the loop holds no job and no row is
\* left 'running' by it, i.e. the outcome of the previous attempt has been
\* written; current_job_id names that one job and nothing else.
C14_OneJobAtATime ==
    [][ /\ (\E j \in JobIds : hist'[j].attempts > hist[j].attempts)
           => /\ pc = "idle" /\ cur = 0
              /\ RunningJobs(jobs) = {}
              /\ Cardinality({j \in JobIds : hist'[j].attempts > hist[j].attempts}) = 1
        /\ Cardinality(RunningJobs(jobs')) <= 1
        /\ RunningJobs(jobs') \subseteq {cur'}
        /\ cur' # 0 => pc' \notin {"idle", "down"} ]_vars

\* C14 witness: the loop is executing the second job after the first job's
\* attempt ended and its outcome was written
C14_Witness ==
    /\ cur = 2 /\ jobs[2].status = "running"
    /\ hist[1].attempts >= 1
    /\ jobs[1].status \in {"pending", "failed", "completed"}

\* C13: once the row of the job being executed reads 'cancelled', the
\* processor stops within one progress-check interval and starts no further
\* year: after the year that was begun next to the cancellation, no other year
\* is begun, whatever the number of records of the years that remain.
C13_CancelledStartsNoYear ==
    [][ (/\ cur # 0 /\ jobs[cur].status = "cancelled"
         /\ trail.cancel_at >= 0
         /\ Cardinality(trail.checked) > trail.cancel_at)
        => ~(pc = "year" /\ pc' = "fetch") ]_vars

----------------------------------------------------------------------------
(* Properties of the singleton *)

\* the tasks that are at work on the job table: recovering, polling or
\* executing a job (a task asleep after stop() exits when it wakes)
WorkingLoops == {l \in LoopIds : loops[l].at \in {"recover", "poll", "job"}}

\* C15: whatever the sequence of start_job_processor and stop_job_processor
\* calls, at most one polling loop is at work; a stop followed by a start
\* while the old loop is mid-job does not leave two.
C15_AtMostOneLoop == Cardinality(WorkingLoops) <= 1

----------------------------------------------------------------------------
(* Properties of the token failures *)

\* C17: whenever a job row is written 'failed' with requires_reauth set, the
\* county of the job has been set 'disconnected' by then.
C17_DisconnectedBeforeReauthFailure ==
    [][ \A j \in JobIds :
           (/\ jobs'[j].status = "failed" /\ jobs'[j].requires_reauth
            /\ ~(jobs[j].status = "failed" /\ jobs[j].requires_reauth))
           => counties'[jobs'[j].county] = "disconnected" ]_vars

----------------------------------------------------------------------------
(* Properties of the client and its rate limiter *)

TransientRefreshFailures == {"http_500", "timeout", "connect_error", "no_refresh_token"}

\* C16: ensure_valid_token reports needs_reauth exactly when the token
\* endpoint answered 400 or 401; a 5xx, a timeout, a connection error or a
\* missing refresh token is transient and the job fails retryably (back to
\* 'pending', requires_reauth not set).
C16_ReauthExactlyOnRejection ==
    token_result.cause # "none"
    => /\ token_result.needs_reauth <=> token_result.cause \in {"http_400", "http_401"}
       /\ token_result.cause \in TransientRefreshFailures
          => /\ jobs[ClientJob].status = "pending"
             /\ ~jobs[ClientJob].requires_reauth

\* C18: a 429 answer never fails the job: no attempt of the job ends in a
\* failure because _make_request raised for a 429.
C18_RateLimitNeverFailsJob ==
    ~(req.error = "http_429" /\ hist[ClientJob].failures > 0)

\* C19: when the limiter knows remaining = 0 and a reset time in the future,
\* whatever other headers it has seen, the next _make_request does not send
\* its request before the reset time.
C19_NoRequestBeforeReset ==
    [][ (req.at = "send" /\ req.attempt = 0 /\ req' # req)
        => ~(limiter.remaining = 0 /\ limiter.reset # None /\ wall < limiter.reset) ]_vars

\* C20: wait_if_needed sleeps and counts a pause if and only if limit and
\* remaining are both known and remaining / limit is strictly below the
\* threshold of 10 percent; otherwise it does not sleep and total_pauses stays,
\* and nothing else changes total_pauses.
C20_ThrottleIffBelowThreshold ==
    [][ LET below == /\ limiter.limit # None /\ limiter.remaining # None
                     /\ limiter.remaining * 100 < 10 * limiter.limit
        IN  /\ (req.at = "wait" /\ req'.at = "send")
               => IF below
                  THEN /\ req'.slept
                       /\ limiter'.total_pauses = limiter.total_pauses + 1
                  ELSE /\ ~req'.slept /\ wall' = wall
                       /\ limiter'.total_pauses = limiter.total_pauses
            /\ limiter'.total_pauses # limiter.total_pauses => req.at = "wait" ]_vars

\* C20 witness: with 1 of 20 calls left the second request was paused once
\* before it was sent
C20_Witness ==
    /\ req.n = 2 /\ req.at = "send" /\ req.slept
    /\ limiter.limit = 20 /\ limiter.remaining = 1
    /\ limiter.total_pauses = 1

\* the limiter as handle_429 has it when it chooses its wait: the 429 counted,
\* the headers of the 429 taken
After429(l, h) ==
    LET l1 == update_from_headers(l, h)
    IN  [l1 EXCEPT !.total_429_count = l1.total_429_count + 1]

C22_TimeoutRetriedOnce ==
    /\ req.timeouts >= 2 => req.error = "timeout"
    /\ req.error = "timeout"
       => /\ req.timeouts = 2
          /\ jobs[ClientJob].status = "pending"

\* C23: a record the upstream returned although it was opened outside the
\* window asked for is never saved as a Permit, in an initial pull or in an
\* incremental pull.
C23_OutOfWindowNeverSaved ==
    \A c \in CountyIds, y \in Years :
        extra[y] = "stray" => <<c, ExtraId(y)>> \notin permits

\* C24: when all that goes wrong is in single records (a null date, a save
\* or an aggregation that raises), no attempt of a pull fails or is retried.
C24_RecordFailuresIsolated ==
    \A j \in JobIds : hist[j].failures = 0

\* the permit a step of process_permit was called on took over a property
\* that existed, being strictly more recent than the permit the property showed
TookOver(k) ==
    /\ Len(aggLog') = Len(aggLog) + 1
    /\ k = PropertyKey(AggCounty, aggLog'[Len(aggLog')])
    /\ k \in DOMAIN props
    /\ DateLT(props[k].most_recent_hvac_date, aggLog'[Len(aggLog')].date)

\* C25: no call of process_permit removes a lead; when a strictly more recent
\* permit leaves the property unqualified, the lead it had is marked
\* disqualified, with the reason naming the new installation date; when a
\* strictly more recent permit leaves the property qualified, the lead's
\* disqualification is cleared.
C25_DisqualificationReversible ==
    [][ /\ DOMAIN leads \subseteq DOMAIN leads'
        /\ \A k \in DOMAIN leads :
              TookOver(k)
              => IF props'[k].is_qualified
                 THEN /\ ~leads'[k].disqualified
                      /\ leads'[k].disqualification_date = NoDate
                 ELSE /\ props'[k].hvac_age_years < 5
                      /\ leads'[k].disqualified
                      /\ leads'[k].disqualification_date = props'[k].most_recent_hvac_date
      ]_vars

\* C25 witness: three permits at one address, each more recent than the one
\* before; the second left the property unqualified on the day it came, the
\* third came years later and left it qualified, and the lead is there with no
\* disqualification
C25_Witness ==
    /\ Len(aggLog) = 3
    /\ \A i \in 1..3 : aggLog[i].addr = aggLog[1].addr
    /\ DateLT(aggLog[1].date, aggLog[2].date)
    /\ DateLT(aggLog[2].date, aggLog[3].date)
    /\ is_qualified_lead(calculate_hvac_age(aggLog[1].processed_on, aggLog[1].date))
    /\ ~is_qualified_lead(calculate_hvac_age(aggLog[2].processed_on, aggLog[2].date))
    /\ is_qualified_lead(calculate_hvac_age(aggLog[3].processed_on, aggLog[3].date))
    /\ LET k == PropertyKey(AggCounty, aggLog[3])
       IN  /\ k \in DOMAIN leads
           /\ ~leads[k].disqualified
           /\ leads[k].disqualification_date = NoDate
           /\ props[k].most_recent_hvac_permit_id = aggLog[3].id

\* permit A of 2015-01-01 and then permit B of 2024-01-01 were ingested, at
\* raw addresses written differently that normalize to one string
IngestedAThenB ==
    /\ Len(aggLog) = 2
    /\ aggLog[1].date = <<15, 1, 1>>
    /\ aggLog[2].date = <<24, 1, 1>>
    /\ aggLog[1].raw # aggLog[2].raw
    /\ normalize(aggLog[1].raw) = normalize(aggLog[2].raw)

\* C26: after permit A (2015-01-01) and then permit B (2024-01-01) at one
\* place written two ways there is exactly one property, its age, score and
\* tier computed from 2024-01-01, and exactly one lead, whose qualification
\* reason is the one of the 2024 permit.
C26_EndToEnd ==
    IngestedAThenB
    => LET k == PropertyKey(AggCounty, aggLog[2])
           b == DerivedFields(aggLog[2], aggLog[2].processed_on)
       IN  /\ DOMAIN props = {k}
           /\ RowCount(rows.props, k) = 1
           /\ props[k].most_recent_hvac_date = <<24, 1, 1>>
           /\ props[k].hvac_age_years = b.hvac_age_years
           /\ props[k].lead_score = b.lead_score
           /\ props[k].lead_tier = b.lead_tier
           /\ DOMAIN leads = {k}
           /\ RowCount(rows.leads, k) = 1
           /\ leads[k].qualification_reason = create_qualification_reason(b.hvac_age_years)

\* the score and the tier of every age 0 .. MaxAge
ScoreByAge == [a \in 0..MaxAge |-> calculate_lead_score(a)]
TierByAge == [a \in 0..MaxAge |-> determine_lead_tier(a)]
ScoresMonotone == \A a1, a2 \in 0..MaxAge : a1 < a2 => ScoreByAge[a1] <= ScoreByAge[a2]
ScoresInRange == \A a \in 0..MaxAge : 0 <= ScoreByAge[a] /\ ScoreByAge[a] <= 100
TiersByBand ==
    \A a \in 0..MaxAge :
        TierByAge[a] = IF a < 5 THEN "COLD"
                       ELSE IF a <= 9 THEN "COOL"
                       ELSE IF a <= 14 THEN "WARM"
                       ELSE "HOT"

\* C27: over the ages 0 .. MaxAge the score never decreases with the age and
\* stays within 0 .. 100; the tier is COLD below 5, COOL from 5 to 9, WARM from
\* 10 to 14 and HOT from 15 on, so 14 is WARM and 15 is HOT; and every property
\* carries the score and the tier of its age.
C27_ScoreMonotoneTiersExact ==
    /\ ScoresMonotone
    /\ ScoresInRange
    /\ TiersByBand
    /\ determine_lead_tier(14) = "WARM"
    /\ determine_lead_tier(15) = "HOT"
    /\ \A k \in DOMAIN props :
          /\ props[k].hvac_age_years \in 0..MaxAge
          /\ props[k].lead_score = calculate_lead_score(props[k].hvac_age_years)
          /\ props[k].lead_tier = determine_lead_tier(props[k].hvac_age_years)

\* C27 witness: one property whose system turned 15 on the day its permit was
\* processed, HOT with score 80, and one a day short of it, 14 and WARM
C27_Witness ==
    \E k1, k2 \in DOMAIN props :
        /\ props[k1].hvac_age_years = 15
        /\ props[k1].lead_tier = "HOT"
        /\ props[k1].lead_score = 80
        /\ props[k2].hvac_age_years = 14
        /\ props[k2].lead_tier = "WARM"
        /\ props[k2].lead_score = 72

\* C28: whenever _make_request sends a request, the first time or again after
\* a 429 wait or a timeout, the token it carries is not expired and not within
\* 60 seconds of its expiry.
C28_NoSendOnExpiringToken ==
    req.at = "send" => ~is_token_expired(token_expires_at, wall)

\* the step claims job j: _poll_and_process picked it up
Claims(j) == hist'[j].attempts = hist[j].attempts + 1

\* C29: the job a poll claims is the one created first among the jobs that are
\* pending at that moment, and the step that claims it writes 'running' on it
\* and does nothing else of its work (a property_aggregation job has no work
\* and is completed at once).
C29_FifoClaiming ==
    [][ \A j \in JobIds :
          Claims(j)
          => /\ jobs[j].status = "pending"
             /\ \A k \in JobIds : jobs[k].status = "pending" => j <= k
             /\ pc = "idle"
             /\ UNCHANGED << counties, storeVars >>
             /\ IF jobs[j].job_type = "property_aggregation"
                THEN jobs'[j].status = "completed"
                ELSE /\ jobs'[j].status = "running"
                     /\ cur' = j
                     /\ pc' = "validate"
                     /\ loc' = NoLoc
      ]_vars

\* C29 witness: two jobs were pending when the poll came; the one created
\* first was claimed and is running, nothing of its work done yet, the other
\* one still waits
C29_Witness ==
    /\ trail.queue = {1, 2}
    /\ cur = 1
    /\ pc = "validate"
    /\ jobs[1].status = "running"
    /\ jobs[2].status = "pending"
    /\ hist[2].attempts = 0

OlderArrives(k) ==
    /\ Len(aggLog') = Len(aggLog) + 1
    /\ aggLog'[Len(aggLog')].date # NoDate
    /\ k = PropertyKey(AggCounty, aggLog'[Len(aggLog')])
    /\ k \in DOMAIN props
    /\ ~DateLT(props[k].most_recent_hvac_date, aggLog'[Len(aggLog')].date)

\* C31: when process_permit gets a permit that is not strictly more recent
\* than the one its property shows, the property keeps every field but
\* total_hvac_permits, which grows by exactly 1, and no lead is written.
C31_OlderPermitFrame ==
    [][ \A k \in DOMAIN props :
          OlderArrives(k)
          => /\ props' = [props EXCEPT ![k].total_hvac_permits = @ + 1]
             /\ leads' = leads
             /\ rows'.leads = rows.leads
      ]_vars

\* the properties the pull counted as created or updated so far
PropertiesCounted(l) ==
    l.year_properties_created + l.year_properties_updated
    + l.total_properties_created + l.total_properties_updated

\* the step is the per-record body of a pull in which process_permit returned
\* a property_id
ReturnedProperty ==
    /\ pc \in {"records", "inc_records"}
    /\ loc'.done = loc.done + 1
    /\ PropertiesCounted(loc') = PropertiesCounted(loc) + 1

\* C32: after a process_permit call that returns normally, the lead of the
\* property it returned carries the property's lead_score and lead_tier.
C32_LeadMirrorsProperty ==
    [][ ReturnedProperty
        => LET k == PropertyKey(snap.county, BatchRecord(loc.year, loc.done + 1))
           IN  k \in DOMAIN leads'
               => /\ leads'[k].lead_score = props'[k].lead_score
                  /\ leads'[k].lead_tier = props'[k].lead_tier
      ]_vars

\* the step is client.request(...) answered or timed out inside _make_request
Answered == req.at = "send" /\ req' # req

\* the answer was a 429 or a timeout
RetryableAnswer ==
    \/ limiter'.total_429_count = limiter.total_429_count + 1
    \/ req'.error = "http_429"
    \/ req'.timeouts = req.timeouts + 1

\* C33: one _make_request call sends at most max_retries requests whatever
\* mix of 429s and timeouts answers them; the answer to the last one, when it
\* is a 429 or a timeout, is raised to the caller; another attempt follows
\* only a 429 or a timeout, so any other error status is raised at once.
C33_BoundedRetries ==
    [][ Answered
        => /\ req.attempt + 1 <= accela_max_retries
           /\ req'.at \in {"send", "idle", "raised"}
           /\ req'.at = "send"
              => /\ req'.attempt = req.attempt + 1
                 /\ req'.attempt + 1 <= accela_max_retries
                 /\ RetryableAnswer
           /\ (RetryableAnswer /\ req.attempt + 1 = accela_max_retries)
              => req'.at = "raised"
           /\ req'.error = "http_500" => req'.at = "raised"
           /\ req'.at = "raised" => pc' # "inc_fetch" /\ jobs'[cur].status # "running"
      ]_vars

\* the first call met a timeout, then a 429, then a 429 on its last attempt
C33_Witness ==
    /\ req.n = 1
    /\ req.at = "raised"
    /\ req.error = "http_429"
    /\ req.attempt = accela_max_retries - 1
    /\ req.timeouts = 1
    /\ limiter.total_429_count = 1

QualifiedByAge == [a \in 0..MaxAge |-> is_qualified_lead(a)]

\* the score band of a tier
ScoreBand(tier) ==
    IF tier = "COLD" THEN 0..39
    ELSE IF tier = "COOL" THEN 40..59
    ELSE IF tier = "WARM" THEN 60..79
    ELSE 80..100

ScoresAgreeWithTiers ==
    \A a \in 0..MaxAge :
        /\ TierByAge[a] \in {"COLD", "COOL", "WARM", "HOT"}
        /\ ScoreByAge[a] \in ScoreBand(TierByAge[a])

QualificationAgrees ==
    \A a \in 0..MaxAge :
        /\ QualifiedByAge[a] = (a >= 5)
        /\ QualifiedByAge[a] = (TierByAge[a] # "COLD" /\ ScoreByAge[a] >= 40)

\* C34: over the ages 0 .. MaxAge the score lies in the band of the tier (COLD
\* 0..39, COOL 40..59, WARM 60..79, HOT 80..100) and is_qualified_lead is true
\* exactly from age 5 on, which is exactly when the tier is not COLD and the
\* score is at least 40; every stored property carries fields that agree so.
C34_ScoreTierQualification ==
    /\ ScoresAgreeWithTiers
    /\ QualificationAgrees
    /\ \A k \in DOMAIN props :
          /\ props[k].lead_score \in ScoreBand(props[k].lead_tier)
          /\ props[k].is_qualified = (props[k].hvac_age_years >= 5)
          /\ props[k].is_qualified
               = (props[k].lead_tier # "COLD" /\ props[k].lead_score >= 40)

\* C34 witness: a property at the threshold, 5 years, COOL, score 40 and
\* qualified, next to one of 1 year that is COLD, score 7 and not qualified
C34_Witness ==
    \E k1, k2 \in DOMAIN props :
        /\ props[k1].hvac_age_years = 5
        /\ props[k1].lead_tier = "COOL"
        /\ props[k1].lead_score = 40
        /\ props[k1].is_qualified
        /\ props[k2].hvac_age_years = 1
        /\ props[k2].lead_tier = "COLD"
        /\ props[k2].lead_score = 7
        /\ ~props[k2].is_qualified

\* C35: a year is 'completed' in a job's years_status only if every record
\* the upstream returned inside that year's window is a row of permits.
C35_CompletedYearsAreSaved ==
    \A j \in JobIds, y \in Years :
        (jobs[j].status # "none" /\ jobs[j].years_status[y] = "completed")
        => \A i \in 1..upstream[y] : <<jobs[j].county, RecordId(y, i)>> \in permits

\* the distinct permits with an opened date that process_permit handled for
\* the property of key k
PermitsProcessedFor(k) ==
    { aggLog[i].id : i \in { n \in DOMAIN aggLog :
                                /\ aggLog[n].date # NoDate
                                /\ PropertyKey(AggCounty, aggLog[n]) = k } }

\* C36: a property's total_hvac_permits is the number of distinct permits
\* processed for its address, so processing a permit again leaves it as it was.
C36_CounterCountsDistinctPermits ==
    \A k \in DOMAIN props :
        props[k].total_hvac_permits = Cardinality(PermitsProcessedFor(k))

\* C37: the progress_percent of an initial_pull is within 0 .. 100 and is 100
\* only when every year of its years_status is 'completed'.
C37_ProgressFullOnlyWhenAllYearsDone ==
    \A j \in JobIds :
        jobs[j].status # "none"
        => /\ jobs[j].progress_percent \in 0..100
           /\ jobs[j].progress_percent = 100
              => \A y \in Years : jobs[j].years_status[y] = "completed"

----------------------------------------------------------------------------
(* The processor under fair scheduling: the loop of start() keeps polling    *)
(* and every step of an attempt that can be taken is taken                  *)

\* a step of the polling loop or of an attempt outside the per-record loop;
\* the faults are those of the token checks and of the incremental fetch
ControlStep ==
    \/ Start
    \/ \E j \in JobIds : Poll(j)
    \/ \E o \in TokenOutcomes : Validate(o)
    \/ SkipYear
    \/ \E o \in TokenOutcomes : BeginYear(o)
    \/ FetchYear("ok")
    \/ EndYear
    \/ FinishInitial
    \/ \E o \in FetchOutcomes : FetchIncremental(o)
    \/ FinishIncremental

\* the body of the per-record loop of the two pulls
RecordStep ==
    \/ \E e \in BOOLEAN : ProcessRecord(e, "ok")
    \/ ProcessIncrementalRecord("ok")

ProcessorStep == ControlStep \/ RecordStep

\* what the users of the API do meanwhile
UserStep ==
    \/ \E c \in CountyIds : CreateCounty(c)
    \/ \E c \in CountyIds, t \in JobTypes : CreateJob(c, t)
    \/ \E j \in JobIds : CancelJob(j)

LiveNext == UserStep \/ ProcessorStep

\* a record of the batch waits for its turn: the state in which RecordStep is
\* enabled
RecordPending == pc \in {"records", "inc_records"} /\ loc.done < loc.batch

\* among the steps of LiveNext, those of RecordStep: no step of a user moves
\* the attempt
RecordTaken == RecordPending /\ <<pc, loc>>' # <<pc, loc>>

\* weak fairness of RecordStep, written out: WF_vars(A) is
\* []<>(~ENABLED <<A>>_vars) \/ []<><<A>>_vars
RecordFairness == []<>(~RecordPending) \/ []<><<RecordTaken>>_vars

\* the loop of start() keeps polling and every attempt goes on to its end
LiveSpec ==
    TableInit /\ [][LiveNext]_vars /\ WF_vars(ControlStep) /\ RecordFairness

\* C38: under fair scheduling of the processor every job that is pending
\* eventually is completed, failed or cancelled (or its row is deleted).
C38_PendingJobsFinish ==
    \A j \in JobIds :
        (jobs[j].status = "pending") ~> (jobs[j].status \in Terminal \cup {"none"})

\* C38 witness: the older job failed for good after all its retries and the
\* younger one, an incremental pull, was then run once and completed
C38_Witness ==
    /\ jobs[1].status = "failed"
    /\ jobs[1].retry_count = DefaultMaxRetries
    /\ hist[1].attempts = DefaultMaxRetries + 1
    /\ jobs[2].job_type = "incremental_pull"
    /\ jobs[2].status = "completed"
    /\ hist[2].attempts = 1

\* C39: no call of the rate limiter raises, whatever headers the answers
\* carried: no _make_request call ends by an exception of update_from_headers
\* or of should_pause.
C39_LimiterNeverRaises == req.error \notin {"type_error", "zero_division"}

----------------------------------------------------------------------------
(* PullScheduler and the window of the incremental pull, in days, for one    *)
(* county whose initial pull is completed                                   *)

\* a day goes by
DayPasses ==
    /\ sched.day < MaxDay
    /\ sched' = [sched EXCEPT !.day = sched.day + 1]
    /\ UNCHANGED << coreVars, loopVars, clientVars, feedVars >>

\* _check_and_schedule_pulls for the county when it is due and has no active
\* job: the job is inserted with its parameters and the county rescheduled
check_and_schedule_pulls ==
    /\ sched.next_pull_at <= sched.day
    /\ sched.parameters = NoParameters
    /\ LET date_to == sched.day
           date_from == date_to - SchedulerLookbackDays
       IN  sched' = [sched EXCEPT
                        !.parameters = [date_from |-> date_from, date_to |-> date_to,
                                        limit |-> 10000],
                        !.next_pull_at = sched.next_pull_at + RescheduleDays]
    /\ UNCHANGED << coreVars, loopVars, clientVars, feedVars >>

\* params.get('days_back', 2)
days_back(params) ==
    IF "days_back" \in DOMAIN params THEN params.days_back ELSE DefaultDaysBack

\* _process_incremental_pull: the window handed to get_permits
process_incremental_pull ==
    /\ sched.parameters # NoParameters
    /\ LET date_to == sched.day
           date_from == date_to - days_back(sched.parameters)
       IN  sched' = [sched EXCEPT
                        !.parameters = NoParameters,
                        !.asked = Append(sched.asked,
                                         [date_from |-> sched.parameters.date_from,
                                          date_to |-> sched.parameters.date_to]),
                        !.fetched = Append(sched.fetched,
                                           [date_from |-> date_from, date_to |-> date_to])]
    /\ UNCHANGED << coreVars, loopVars, clientVars, feedVars >>

ScheduleNext == DayPasses \/ check_and_schedule_pulls \/ process_incremental_pull

ScheduleSpec == AggInit /\ [][ScheduleNext]_vars

\* C40: the windows of consecutive incremental pulls of the county overlap or
\* abut, and each window fetched is the one its job's parameters ask for.
C40_IncrementalWindowsCover ==
    /\ \A i \in 1..(Len(sched.fetched) - 1) :
          sched.fetched[i + 1].date_from <= sched.fetched[i].date_to + 1
    /\ \A i \in DOMAIN sched.fetched : sched.fetched[i] = sched.asked[i]

====
